---- MODULE Spec2Model ----
(***************************************************************************)
(* Population controller of the autonomous-car simulation: the draw loop   *)
(* of js/loadbinary.js, the generation-advance of js/ga.js, the Particle   *)
(* of js/ray.js and the brain operations of js/nn.js.                      *)
(*                                                                         *)
(* JavaScript is run-to-completion: a frame of draw(), a UI handler and a  *)
(* promise continuation are each one atomic step.  callNextGeneration is   *)
(* async and is never awaited by its callers, so its continuation (the     *)
(* assignment of the result to agents / savedagents / generationCount)     *)
(* is a separate step that happens after the save promise has settled.     *)
(***************************************************************************)
EXTENDS Integers, Sequences, FiniteSets, TLC

\* ---------------------------------------------------------------- bounds
\* config.js TOTAL is 100; the population is scaled down.
TOTAL == 2
\* config.js LIFESPAN is 30 and maxFitness is 500; both scaled down.
LIFESPAN == 1
maxFitness == 0
\* speedSlider.value(): logic cycles per rendered frame, 1..MaxCycles
MaxCycles == 2
\* number of nextGeneration invocations explored in one run
MaxCalls == 3
\* brain operations explored on one heap: instances and weight tokens
MaxBrains == 4
MaxTokens == 5
\* fitness and selection on their own: pool size and raw checkpoint count
MaxPool == 3
MaxCount == 2
\* startup: length of a string held by the persistence store
MaxText == 2
\* mutate on weight scalars: number of scalars of the largest tensor
MaxTensor == 2
\* Ray.cast: largest grid coordinate, and the sensor range on that grid
MaxGrid == 3
SIGHT == 2
\* control steps: rays per agent, checkpoints of the track, captures of one
\* agent, canvas width, start position, speed and force limits, obstacle positions
NumRays == 2
NumCheckpoints == 2
MaxCaptures == 3
Width == 2
StartPos == 1
maxspeed == 2
maxforce == 1
ObstaclePositions == 0..1
\* dashboard: maxHistoryLength is 100, scaled down; calls of updateStats and
\* generations explored in one run
maxHistoryLength == 2
MaxSamples == 4

\* ------------------------------------------------------ program constants
ELITISM_COUNT == 1
NumPresets == 4
LethalDistance == 10
CaptureRadius == 5

VARIABLES
  agents,                  \* live set: sequence of Particle records
  savedagents,             \* terminated pool: sequence of Particle records
  generationCount,         \* in-memory generation counter
  changeMap,               \* fitness-threshold flag
  bestP,                   \* brain id of the best live agent of the last frame, 0 = null
  currentTrackPresetIndex, \* index into TRACK_PRESETS
  brains,                  \* heap of NeuralNetwork instances, indexed by brain id
  nextAgent,               \* next Particle identity
  inflight,                \* pending callNextGeneration continuations, in call order
  cyclesLeft,              \* cycles of the current frame not yet run (0 = between frames)
  storedGen,               \* localStorage generationCount, -1 = never stored
  disposeThrows,           \* whether model.dispose() of a disposed model raises
  storageFull,             \* whether localStorage refuses writes (quota exceeded)
  calls,                   \* number of nextGeneration invocations so far
  useAfterRelease,         \* predict/copy/mutate was invoked on a disposed brain
  starved,                 \* a cycle started with an empty live set
  dropped,                 \* brain ids of the agents an assignment removed from the live set (live) and from the pool (pool)
  last,                    \* the operation that produced this state
  probe                    \* a pool of fitness values the functions of ga.js are applied to on their own

vars == <<agents, savedagents, generationCount, changeMap, bestP,
          currentTrackPresetIndex, brains, nextAgent, inflight, cyclesLeft,
          storedGen, disposeThrows, storageFull, calls, useAfterRelease, starved,
          dropped, last, probe>>

Min(a, b) == IF a < b THEN a ELSE b

\* ------------------------------------------------------------ brains (nn.js)
\* A NeuralNetwork instance: its weights and how often dispose() ran on it.
\* The weight tensors are abstracted to a token: two brains have equal weights
\* iff they carry the same token.  Randomly initialised and randomly
\* perturbed weights get a token no brain has carried before.
\* The heap bs holds the instances (cells, indexed by brain id) and the next
\* unused weight token (fresh).
Brain(w) == [w |-> w, disposed |-> 0]

IsDisposed(bs, b) == bs.cells[b].disposed > 0

\* The brain id the next instance created in bs gets.
NextBrain(bs) == Len(bs.cells) + 1

\* new NeuralNetwork(inputs, hidden, outputs): a new instance with
\* engine-initialised weights.
NewBrain(bs) ==
  [cells |-> Append(bs.cells, Brain(bs.fresh)), fresh |-> bs.fresh + 1]

\* NeuralNetwork.copy(): a new instance with the source's weights; on a
\* disposed source both guards of copy() return a fresh random network.
Copy(bs, b) ==
  IF IsDisposed(bs, b) THEN NewBrain(bs)
  ELSE [bs EXCEPT !.cells = Append(bs.cells, Brain(bs.cells[b].w))]

\* NeuralNetwork.mutate(rate): each weight scalar is perturbed with
\* probability rate; changed says whether at least one was.
Mutate(bs, b, changed) ==
  IF changed THEN [bs EXCEPT !.cells[b].w = bs.fresh, !.fresh = bs.fresh + 1]
  ELSE bs

\* A dispose that also releases every instance holding the same weight values.
DisposeAliased(bs, b) ==
  [bs EXCEPT !.cells = [c \in 1..Len(bs.cells) |->
     IF bs.cells[c].w = bs.cells[b].w
     THEN [bs.cells[c] EXCEPT !.disposed = Min(bs.cells[c].disposed + 1, 2)]
     ELSE bs.cells[c]]]

\* NeuralNetwork.dispose() / Particle.dispose(): count capped at 2.
Dispose(bs, b) ==
  [bs EXCEPT !.cells[b].disposed = Min(bs.cells[b].disposed + 1, 2)]

\* ------------------------------------------------------- Particle (ray.js)
\* A fitness value.  norm = 0: val is the raw count of captured checkpoints.
\* norm > 0: the value has been shaped and normalised norm times; it lies in
\* (0,1], val is its rank in the pool it was normalised with (0 = smallest)
\* and unit says that it is exactly 1 (the pool was a singleton).
RawFitness(c) == [norm |-> 0, val |-> c, unit |-> FALSE]

\* Particle constructor: fitness 0, alive, counter 0, own brain b.
Particle(id, b) ==
  [id |-> id, brain |-> b, fitness |-> RawFitness(0), dead |-> FALSE, counter |-> 0]


\* Particle.look as far as the population sees it: brain.predict runs on the
\* agent's own brain, and a ray record below 10 (hit) sets dead.
look(a, hit) == IF hit THEN [a EXCEPT !.dead = TRUE] ELSE a

\* Particle.check: within capture distance of the target checkpoint (near),
\* fitness++ and counter = 0; guarded by finished only, which is never set.
check(a, near) ==
  IF near THEN [a EXCEPT !.fitness.val = a.fitness.val + 1, !.counter = 0] ELSE a

\* Particle.bounds: position outside the canvas (out) sets dead.
bounds(a, out) == IF out THEN [a EXCEPT !.dead = TRUE] ELSE a

\* An update that never counts a frame.
updateNoTimeout(a) == a

\* Particle.update: a live agent counts one more frame and dies past LIFESPAN.
update(a) ==
  IF ~a.dead
  THEN [a EXCEPT !.counter = a.counter + 1, !.dead = (a.counter + 1 > LIFESPAN)]
  ELSE a

\* One control step in the order draw() makes the calls.
\* (a hit agent is dead whatever bounds() finds, so out is only varied
\* without hit)
StepInputs == {x \in [hit : BOOLEAN, near : BOOLEAN, out : BOOLEAN] : x.hit => ~x.out}
Step(a, in) == update(bounds(check(look(a, in.hit), in.near), in.out))

\* ------------------------------------------------------ fitness (ga.js)
\* Order class of the shaped value 2^fitness within pool.  A raw 0 gives 1, a
\* normalised value below 1 gives a value strictly between 1 and 2 (ordered as
\* before), a normalised 1 and a raw 1 give 2, a raw c >= 2 gives 2^c.
ShapeKey(f, pool) ==
  IF f.norm = 0 THEN (IF f.val = 0 THEN 0 ELSE Len(pool) + f.val)
  ELSE IF f.unit THEN Len(pool) + 1
  ELSE 1 + Cardinality({pool[j].fitness.val : j \in
         {i \in 1..Len(pool) : /\ pool[i].fitness.norm > 0
                               /\ ~pool[i].fitness.unit
                               /\ pool[i].fitness.val < f.val}})

\* calculateFitness: shape every agent (Particle.calculateFitness), sum,
\* divide by the sum.  Division by the common positive sum keeps the order, so
\* the normalised value is kept as its rank among the pool.
Normalised(pool, keys) ==
  [i \in 1..Len(pool) |->
     [pool[i] EXCEPT !.fitness =
        [norm |-> pool[i].fitness.norm + 1,
         val  |-> Cardinality({keys[j] : j \in {x \in 1..Len(pool) : keys[x] < keys[i]}}),
         unit |-> (Len(pool) = 1)]]]

calculateFitness(pool) ==
  Normalised(pool, [i \in 1..Len(pool) |-> ShapeKey(pool[i].fitness, pool)])

\* currentSavedAgents.sort((a, b) => b.fitness - a.fitness): stable, descending.
RECURSIVE InsertDesc(_, _)
InsertDesc(s, a) ==
  IF s = <<>> THEN <<a>>
  ELSE IF Head(s).fitness.val >= a.fitness.val
       THEN <<Head(s)>> \o InsertDesc(Tail(s), a)
       ELSE <<a>> \o s

RECURSIVE SortDesc(_)
SortDesc(s) ==
  IF s = <<>> THEN <<>>
  ELSE InsertDesc(SortDesc(SubSeq(s, 1, Len(s) - 1)), s[Len(s)])

\* --------------------------------------------- generation advance (ga.js)
\* Construction context threaded through nextGeneration: the brain heap, the
\* next Particle identity, the agents built so far, whether a brain operation
\* ran on a disposed brain, and whether an exception ended the function.
\* made records, for each agent built, the donor brain (0 = none), whether
\* the donor was undisposed when copied, and how often mutate ran on the copy.
Ctx(bs, na) ==
  [bs |-> bs, na |-> na, new |-> <<>>, uar |-> FALSE, thrown |-> FALSE, made |-> <<>>]

Made(ctx, donor) ==
  Append(ctx.made, [donor |-> donor, mutated |-> 0,
                    live |-> (donor = 0 \/ ~IsDisposed(ctx.bs, donor))])

\* A constructor that keeps the donor's network instead of copying it.
ParticleFromShared(ctx, donor) ==
  [ctx EXCEPT !.new = Append(ctx.new, Particle(ctx.na, donor)),
              !.na  = ctx.na + 1,
              !.made = Made(ctx, donor),
              !.uar = ctx.uar \/ IsDisposed(ctx.bs, donor)]

\* new Particle(brain): this.brain = brain.copy() (ray.js 197-198).
ParticleFrom(ctx, donor) ==
  [ctx EXCEPT !.bs  = Copy(ctx.bs, donor),
              !.new = Append(ctx.new, Particle(ctx.na, NextBrain(ctx.bs))),
              !.na  = ctx.na + 1,
              !.made = Made(ctx, donor),
              !.uar = ctx.uar \/ IsDisposed(ctx.bs, donor)]

\* new Particle(null): this.brain = new NeuralNetwork(...) (ray.js 199-200).
ParticleRandom(ctx) ==
  [ctx EXCEPT !.bs  = NewBrain(ctx.bs),
              !.new = Append(ctx.new, Particle(ctx.na, NextBrain(ctx.bs))),
              !.made = Made(ctx, 0),
              !.na  = ctx.na + 1]

\* pickOne: the draw r = random(1) selects the index at which the subtraction
\* walk stops.  pick = i > 0 stands for r in (f_1+..+f_(i-1), f_1+..+f_i];
\* pick = 0 stands for r = 0, where the loop body never runs, index becomes
\* -1 and savedAgents[-1].brain raises a TypeError.  The child copies the
\* parent's brain and mutates its own copy.
pickOne(ctx, pool, pick, changed) ==
  IF pick = 0 THEN [ctx EXCEPT !.thrown = TRUE]
  ELSE LET c == ParticleFrom(ctx, pool[pick].brain)
       IN [c EXCEPT !.bs = Mutate(c.bs, Len(c.bs.cells), changed),
                    !.made[Len(c.made)].mutated = 1]

\* Math.min(ELITISM_COUNT, currentSavedAgents.length)
ActualElites(pool) == Min(ELITISM_COUNT, Len(pool))

\* for (i = 0; i < actualElites; i++) newAgents.push(new Particle(saved[i].brain))
RECURSIVE ElitismLoop(_, _, _)
ElitismLoop(ctx, pool, i) ==
  IF i > ActualElites(pool) THEN ctx
  ELSE ElitismLoop(ParticleFrom(ctx, pool[i].brain), pool, i + 1)

\* for (i = actualElites; i < TOTAL; i++): pickOne, or a random Particle when
\* the pool is empty.
RECURSIVE FillLoop(_, _, _, _, _)
FillLoop(ctx, pool, i, picks, mut) ==
  IF i > TOTAL \/ ctx.thrown THEN ctx
  ELSE FillLoop(IF Len(pool) > 0 THEN pickOne(ctx, pool, picks[i], mut[i])
                ELSE ParticleRandom(ctx),
                pool, i + 1, picks, mut)

\* for (i = 0; i < saved.length; i++) saved[i].dispose(): dispose() of an
\* already disposed model either raises (thr) or is a second release.
RECURSIVE DisposeLoop(_, _, _, _)
DisposeLoop(ctx, pool, i, thr) ==
  IF i > Len(pool) \/ ctx.thrown THEN ctx
  ELSE IF IsDisposed(ctx.bs, pool[i].brain) /\ thr
       THEN [ctx EXCEPT !.thrown = TRUE]
       ELSE DisposeLoop([ctx EXCEPT !.bs = Dispose(ctx.bs, pool[i].brain)],
                        pool, i + 1, thr)

\* The random inputs of one nextGeneration call on pool: for every slot that
\* pickOne fills, the stop index of the walk and whether mutate changed a
\* weight.
CallInputs(pool) ==
  IF Len(pool) = 0
  THEN [picks : {[i \in 1..TOTAL |-> 0]}, mut : {[i \in 1..TOTAL |-> FALSE]},
        quota : {storageFull}]
  ELSE [picks : {f \in [1..TOTAL -> 0..Len(pool)] :
                   \A i \in 1..ActualElites(pool) : f[i] = 0},
        mut   : {f \in [1..TOTAL -> BOOLEAN] :
                   \A i \in 1..TOTAL : (i <= ActualElites(pool)) => ~f[i]},
        quota : {storageFull}]

\* The synchronous part of nextGeneration (ga.js 22-62), up to the call of
\* saveStateCallback.  Sorting and fitness shaping act on the caller's array.
\* ga.js 26-33: fitness, sort, and brainToPersist = saved[0].brain.copy().
Evaluate(c0, pool) ==
  IF Len(pool) > 0
  THEN [c0 EXCEPT !.bs  = Copy(c0.bs, pool[1].brain),
                  !.uar = IsDisposed(c0.bs, pool[1].brain)]
  ELSE c0

\* ga.js 35-58: elites, offspring, disposal of the pool.
Breed(c1, pool, in, thr) ==
  DisposeLoop(FillLoop(ElitismLoop(c1, pool, 1), pool, ActualElites(pool) + 1,
                       in.picks, in.mut),
              pool, 1, thr)

\* A result that returns the input count unchanged.
OutcomeStaleCount(pool, bs0, c1, c4, count) ==
  [pool |-> pool, bs |-> c4.bs, na |-> c4.na, uar |-> c4.uar,
   thrown |-> c4.thrown,
   newAgents |-> c4.new, newSavedAgents |-> <<>>,
   newGenerationCount |-> count,
   made |-> c4.made, bred |-> ~c4.thrown,
   poolBrains |-> {pool[i].brain : i \in 1..Len(pool)},
   parentsKept |-> \A i \in 1..Len(pool) :
                     c4.bs.cells[pool[i].brain].w = bs0.cells[pool[i].brain].w,
   brainToPersist |-> IF Len(pool) > 0 THEN Len(c1.bs.cells) ELSE 0,
   eliteW |-> [i \in 1..Min(ELITISM_COUNT, Len(pool)) |-> bs0.cells[pool[i].brain].w],
   eliteStale |-> \E i \in 1..Min(ELITISM_COUNT, Len(pool)) : IsDisposed(bs0, pool[i].brain)]

\* ga.js 60-62 and 72-76: what the call returns, with the brain it hands to
\* saveStateCallback; eliteW and eliteStale record the weights and the
\* disposal state the top agents' brains had when the call started.
Outcome(pool, bs0, c1, c4, count) ==
  [pool |-> pool, bs |-> c4.bs, na |-> c4.na, uar |-> c4.uar,
   thrown |-> c4.thrown,
   newAgents |-> c4.new, newSavedAgents |-> <<>>,
   newGenerationCount |-> count + 1,
   made |-> c4.made, bred |-> ~c4.thrown,
   poolBrains |-> {pool[i].brain : i \in 1..Len(pool)},
   parentsKept |-> \A i \in 1..Len(pool) :
                     c4.bs.cells[pool[i].brain].w = bs0.cells[pool[i].brain].w,
   brainToPersist |-> IF Len(pool) > 0 THEN Len(c1.bs.cells) ELSE 0,
   eliteW |-> [i \in 1..ActualElites(pool) |-> bs0.cells[pool[i].brain].w],
   eliteStale |-> \E i \in 1..ActualElites(pool) : IsDisposed(bs0, pool[i].brain)]

Bred(pool, bs0, c1, count, in, thr) ==
  Outcome(pool, bs0, c1, Breed(c1, pool, in, thr), count)

Advance(pool, bs0, na0, count, in, thr) ==
  Bred(pool, bs0, Evaluate(Ctx(bs0, na0), pool), count, in, thr)

nextGeneration(pool0, bs0, na0, count, in, thr) ==
  Advance(IF Len(pool0) > 0 THEN SortDesc(calculateFitness(pool0)) ELSE pool0,
          bs0, na0, count, in, thr)


\* ------------------------------------------------ the sketch (loadbinary.js)
\* The module-scope state a handler changes synchronously while it runs.
Globals ==
  [saved |-> savedagents, bs |-> brains, na |-> nextAgent, inflight |-> inflight,
   storedGen |-> storedGen, calls |-> calls, uar |-> useAfterRelease,
   preset |-> currentTrackPresetIndex]

\* No pending call: the call field of an operation that is no continuation.
NoCall ==
  [id |-> 0, kind |-> "none", newAgents |-> <<>>, newSavedAgents |-> <<>>,
   newGenerationCount |-> 0, brainToPersist |-> 0, count0 |-> 0, poolLen |-> 0,
   eliteW |-> <<>>, eliteStale |-> FALSE,
   made |-> <<>>, poolBrains |-> {}, parentsKept |-> TRUE, bred |-> FALSE]

\* buildTrack as far as the population sees it: the preset index advances.
buildTrack(G) == [G EXCEPT !.preset = (G.preset + 1) % NumPresets]

\* callNextGeneration up to its await: nextGeneration runs synchronously on
\* the module's savedagents array and generationCount, then
\* saveSimulationState writes the new count to localStorage and starts the
\* model save of brainToSave || bestP.brain.  The continuation is pending:
\* "io" waits for the IndexedDB save, "micro" had no brain to save and
\* resumes in a microtask, "error" is the rejected promise of a call that
\* raised, whose continuation is the catch block.
SaveKind(r, bp) ==
  IF r.thrown THEN "error"
  ELSE IF r.brainToPersist = 0 /\ bp = 0 THEN "micro" ELSE "io"

Pending(G, r, count, bp) ==
  [id |-> G.calls + 1, kind |-> SaveKind(r, bp),
   newAgents |-> IF r.thrown THEN <<>> ELSE r.newAgents,
   newSavedAgents |-> r.newSavedAgents,
   newGenerationCount |-> r.newGenerationCount,
   brainToPersist |-> r.brainToPersist,
   count0 |-> count, poolLen |-> Len(G.saved),
   eliteW |-> r.eliteW, eliteStale |-> r.eliteStale,
   made |-> r.made, poolBrains |-> r.poolBrains, parentsKept |-> r.parentsKept,
   bred |-> r.bred]

Called(G, r, count, bp) ==
  [G EXCEPT !.saved = r.pool, !.bs = r.bs, !.na = r.na,
            !.inflight = Append(G.inflight, Pending(G, r, count, bp)),
            !.storedGen = IF r.thrown THEN G.storedGen ELSE r.newGenerationCount,
            !.calls = G.calls + 1,
            !.uar = G.uar \/ r.uar]

\* saveSimulationState, lines 96-98: localStorage.setItem raises when the
\* store refuses the write (quota); the promise of saveSimulationState is then
\* rejected and the await in nextGeneration (ga.js 65) raises.
Saved(r, quota) == [r EXCEPT !.thrown = r.thrown \/ quota]

callNextGeneration(G, count, bp, in, thr) ==
  Called(G, Saved(nextGeneration(G.saved, G.bs, G.na, count, in, thr), in.quota),
         count, bp)

\* A continuation that runs as a microtask is pending: it runs before the
\* next frame, UI event or I/O completion.
MicroPending == \E i \in 1..Len(inflight) : inflight[i].kind \in {"micro", "error"}

RECURSIVE Reverse(_)
Reverse(s) == IF s = <<>> THEN <<>> ELSE Append(Reverse(Tail(s)), Head(s))

IsDead(a) == a.dead
IsAlive(a) == ~a.dead

\* for (let agent of agents) if (agent.fitness > maxFitnessCurrent) ...:
\* the first agent of maximal fitness, null (0) for an empty live set.
BestOf(live) ==
  IF live = <<>> THEN 0
  ELSE LET m == CHOOSE x \in {live[i].fitness.val : i \in 1..Len(live)} :
                  \A j \in 1..Len(live) : live[j].fitness.val <= x
           k == CHOOSE i \in 1..Len(live) :
                  /\ live[i].fitness.val = m
                  /\ \A j \in 1..(i - 1) : live[j].fitness.val < m
       IN live[k].brain

\* No pool under the functions of ga.js on their own.
NoProbe == [stage |-> "none", pool |-> <<>>, r |-> [num |-> 0, den |-> 1], index |-> 0]

DummyInput == [picks |-> <<>>, mut |-> <<>>, quota |-> FALSE]

Init ==
  /\ brains = [cells |-> [i \in 1..TOTAL |-> Brain(i)], fresh |-> TOTAL + 1]
  /\ agents = [i \in 1..TOTAL |-> Particle(i, i)]
  /\ nextAgent = TOTAL + 1
  /\ savedagents = <<>>
  /\ generationCount = 0
  /\ changeMap = FALSE
  /\ bestP = 0
  /\ currentTrackPresetIndex = 1
  /\ inflight = <<>>
  /\ cyclesLeft = 0
  /\ storedGen = -1
  /\ disposeThrows \in BOOLEAN
  /\ storageFull \in BOOLEAN
  /\ calls = 0
  /\ useAfterRelease = FALSE
  /\ starved = FALSE
  /\ dropped = [live |-> {}, pool |-> {}]
  /\ last = [op |-> "setup", n |-> 0, call |-> NoCall]
  /\ probe = NoProbe

\* The second loop of a cycle and the forced move (loadbinary.js 592-616):
\* dead agents go to the pool in the order of the backward loop, changeMap is
\* set when an agent of the cycle is above maxFitness, and when it is set
\* with agents alive (forced) the rest of the live set follows.
Sweep(stepped, live1, cm1) ==
  [live   |-> IF Len(live1) # 0 /\ cm1 THEN <<>> ELSE live1,
   saved  |-> savedagents \o Reverse(SelectSeq(stepped, IsDead))
              \o (IF Len(live1) # 0 /\ cm1 THEN Reverse(live1) ELSE <<>>),
   cm     |-> cm1,
   forced |-> Len(live1) # 0 /\ cm1]

Swept(stepped) ==
  Sweep(stepped, SelectSeq(stepped, IsAlive),
        changeMap \/ \E i \in 1..Len(stepped) : stepped[i].fitness.val > maxFitness)

\* One cycle of the for-loop of draw() (loadbinary.js 572-640); the cycle
\* that ends the frame also recomputes bestP (643-654).  No other step
\* runs between the cycles of one frame.
Draw ==
  /\ cyclesLeft = 0 => ~MicroPending
  /\ \E cycles \in (IF cyclesLeft = 0 THEN 1..MaxCycles ELSE {cyclesLeft}) :
     \E stepped \in {[i \in 1..Len(agents) |-> Step(agents[i], inp[i])] :
                       inp \in [1..Len(agents) -> StepInputs]} :
     \E c \in {Swept(stepped)} :
       /\ calls + (IF c.forced THEN 2 ELSE IF Len(c.live) = 0 THEN 1 ELSE 0) <= MaxCalls
       /\ \E G0 \in {[Globals EXCEPT
                        !.saved = c.saved,
                        !.uar = useAfterRelease \/
                          \E i \in 1..Len(agents) : IsDisposed(brains, agents[i].brain)]} :
          \E in1 \in (IF c.forced THEN CallInputs(G0.saved) ELSE {DummyInput}) :
          \E G1 \in {IF c.forced
                     THEN callNextGeneration(buildTrack(G0), generationCount, bestP,
                                             in1, disposeThrows)
                     ELSE G0} :
          \E in2 \in (IF Len(c.live) = 0 THEN CallInputs(G1.saved) ELSE {DummyInput}) :
          \E G2 \in {IF Len(c.live) = 0
                     THEN callNextGeneration(buildTrack(G1), generationCount, bestP,
                                             in2, disposeThrows)
                     ELSE G1} :
            /\ agents' = c.live
            /\ savedagents' = G2.saved
            /\ changeMap' = (IF c.forced THEN FALSE ELSE c.cm)
            /\ brains' = G2.bs
            /\ nextAgent' = G2.na
            /\ inflight' = G2.inflight
            /\ storedGen' = G2.storedGen
            /\ calls' = G2.calls
            /\ useAfterRelease' = G2.uar
            /\ currentTrackPresetIndex' = G2.preset
            /\ cyclesLeft' = cycles - 1
            /\ bestP' = IF cycles = 1 THEN BestOf(c.live) ELSE bestP
            /\ starved' = (starved \/ Len(agents) = 0)
            /\ last' = [op |-> "draw", n |-> G2.calls - calls, call |-> NoCall]
  /\ UNCHANGED <<generationCount, disposeThrows, storageFull, dropped, probe>>

\* window.change_obs_no (loadbinary.js 367-380): buildTrack, then
\* callNextGeneration, whatever the state of the live set.
change_obs_no ==
  /\ cyclesLeft = 0
  /\ ~MicroPending
  /\ calls < MaxCalls
  /\ \E in \in CallInputs(savedagents) :
     \E G \in {callNextGeneration(buildTrack(Globals), generationCount, bestP,
                                  in, disposeThrows)} :
          /\ savedagents' = G.saved
          /\ brains' = G.bs
          /\ nextAgent' = G.na
          /\ inflight' = G.inflight
          /\ storedGen' = G.storedGen
          /\ calls' = G.calls
          /\ useAfterRelease' = G.uar
          /\ currentTrackPresetIndex' = G.preset
  /\ last' = [op |-> "change_obs_no", n |-> 1, call |-> NoCall]
  /\ UNCHANGED <<agents, generationCount, changeMap, bestP, cyclesLeft,
                 disposeThrows, storageFull, starved, dropped, probe>>

RemoveAt(s, i) == SubSeq(s, 1, i - 1) \o SubSeq(s, i + 1, Len(s))

BrainsOf(s) == {s[i].brain : i \in 1..Len(s)}

\* The continuation of a call whose save promise settled: nextGeneration
\* disposes brainToPersist and returns (ga.js 67-76), callNextGeneration
\* assigns the result (loadbinary.js 260-262).
InstallResult ==
  /\ cyclesLeft = 0
  /\ \E i \in 1..Len(inflight) :
       LET r == inflight[i]
       IN /\ r.kind \in {"io", "micro"}
          /\ r.kind = "io" => ~MicroPending
          /\ brains' = IF r.brainToPersist # 0 THEN Dispose(brains, r.brainToPersist)
                       ELSE brains
          /\ agents' = r.newAgents
          /\ savedagents' = r.newSavedAgents
          /\ generationCount' = r.newGenerationCount
          /\ inflight' = RemoveAt(inflight, i)
          /\ dropped' = [live |-> dropped.live \cup BrainsOf(agents),
                          pool |-> dropped.pool \cup BrainsOf(savedagents)]
          /\ last' = [op |-> "install", n |-> 0, call |-> r]
  /\ UNCHANGED <<changeMap, bestP, currentTrackPresetIndex, nextAgent, cyclesLeft,
                 storedGen, disposeThrows, storageFull, calls, useAfterRelease,
                 starved, probe>>

\* The catch block of callNextGeneration (loadbinary.js 263-272): TOTAL random
\* agents, an empty pool, generationCount++.
Fallback ==
  /\ cyclesLeft = 0
  /\ \E i \in 1..Len(inflight) :
       LET r == inflight[i]
       IN /\ r.kind = "error"
          /\ brains' = [cells |-> brains.cells \o
                                    [j \in 1..TOTAL |-> Brain(brains.fresh + j - 1)],
                        fresh |-> brains.fresh + TOTAL]
          /\ agents' = [j \in 1..TOTAL |->
                          Particle(nextAgent + j - 1, Len(brains.cells) + j)]
          /\ nextAgent' = nextAgent + TOTAL
          /\ savedagents' = <<>>
          /\ generationCount' = generationCount + 1
          /\ inflight' = RemoveAt(inflight, i)
          /\ dropped' = [live |-> dropped.live \cup BrainsOf(agents),
                          pool |-> dropped.pool \cup BrainsOf(savedagents)]
          /\ last' = [op |-> "fallback", n |-> 0, call |-> r]
  /\ UNCHANGED <<changeMap, bestP, currentTrackPresetIndex, cyclesLeft,
                 storedGen, disposeThrows, storageFull, calls, useAfterRelease,
                 starved, probe>>

Next == Draw \/ change_obs_no \/ InstallResult \/ Fallback

Spec == Init /\ [][Next]_vars


\* ------------------------------------------------------------------ claims
Installed == last.op = "install"
Replaced == last.op \in {"install", "fallback"}
Weight(b) == brains.cells[b].w
Releases(b) == brains.cells[b].disposed

\* C1: whenever the live set of the next generation is installed for an
\* advance whose terminated pool was non-empty, it holds, for each of the top
\* min(ELITISM_COUNT, |pool|) agents of the sorted pool, an agent whose brain
\* weights equal that agent's brain weights.
C1_ElitesReappear ==
  (Replaced /\ last.call.poolLen > 0) =>
    \A i \in 1..Len(last.call.eliteW) :
      \E j \in 1..Len(agents) : Weight(agents[j].brain) = last.call.eliteW[i]

\* C2: a call of nextGeneration that returns yields exactly TOTAL new agents,
\* an empty pool and the input count + 1, and after the continuation of
\* callNextGeneration these are agents, savedagents and generationCount.
C2_AdvancePostcondition ==
  /\ \A i \in 1..Len(inflight) :
       inflight[i].kind # "error" =>
         /\ Len(inflight[i].newAgents) = TOTAL
         /\ inflight[i].newSavedAgents = <<>>
         /\ inflight[i].newGenerationCount = inflight[i].count0 + 1
  /\ Installed =>
       /\ agents = last.call.newAgents
       /\ Len(agents) = TOTAL
       /\ savedagents = <<>>
       /\ generationCount = last.call.count0 + 1

\* C2 witness: the result of an advance over a pool larger than ELITISM_COUNT
\* has been installed.
C2_Witness == Installed /\ last.call.poolLen > ELITISM_COUNT

\* C2 witness for the empty pool.
C2_WitnessEmptyPool == Installed /\ last.call.poolLen = 0

\* C3: no agent is in both sets, and every agent that left both sets had its
\* brain released.
C3_Partition ==
  /\ \A i \in 1..Len(agents) : \A j \in 1..Len(savedagents) :
       agents[i].id # savedagents[j].id
  /\ \A b \in dropped.live \cup dropped.pool : Releases(b) > 0

\* C4: one cycle of draw invokes nextGeneration at most once, and no
\* invocation starts while the result of an earlier one is not yet installed.
C4_OneAdvancePerGenerationEnd ==
  /\ last.op = "draw" => last.n <= 1
  /\ Len(inflight) <= 1

\* C5: no cycle of draw starts with an empty live set.
C5_NoStarvedTick == ~starved

\* C6: predict, copy and mutate are never invoked on a disposed brain.
C6_NoUseAfterRelease == ~useAfterRelease

\* C7: no brain is disposed twice, and every agent that an assignment takes
\* out of the terminated pool has had its brain disposed.
C7_PoolReleasedOnce ==
  /\ \A b \in 1..Len(brains.cells) : Releases(b) <= 1
  /\ \A b \in dropped.pool : Releases(b) >= 1

\* C8: every advance over a non-empty pool hands the persistence callback a
\* clone of the best agent's brain, taken while that brain was not disposed,
\* with the input count + 1; the clone stays undisposed while the save is
\* pending and is disposed once when it has settled.
C8_PersistenceEvent ==
  /\ \A i \in 1..Len(inflight) :
       inflight[i].poolLen > 0 =>
         /\ inflight[i].kind = "io"
         /\ inflight[i].brainToPersist # 0
         /\ ~inflight[i].eliteStale
         /\ Weight(inflight[i].brainToPersist) = inflight[i].eliteW[1]
         /\ Releases(inflight[i].brainToPersist) = 0
         /\ inflight[i].newGenerationCount = inflight[i].count0 + 1
  /\ (Replaced /\ last.call.poolLen > 0) =>
       /\ last.call.kind = "io"
       /\ Releases(last.call.brainToPersist) = 1

\* C9: generationCount never decreases.
C9_GenerationMonotonic == [][generationCount' >= generationCount]_vars

\* C10: no two live agents hold the same brain instance, no live agent holds
\* the brain instance of a pool agent, and the agents a pending advance has
\* built hold instances of their own.
C10_ExclusiveBrains ==
  /\ \A i, j \in 1..Len(agents) : i # j => agents[i].brain # agents[j].brain
  /\ \A i \in 1..Len(agents) : agents[i].brain \notin BrainsOf(savedagents)
  /\ \A k \in 1..Len(inflight) :
       LET new == inflight[k].newAgents
       IN /\ \A i, j \in 1..Len(new) : i # j => new[i].brain # new[j].brain
          /\ \A i \in 1..Len(new) :
               new[i].brain \notin BrainsOf(savedagents) \cup BrainsOf(agents)

\* C10 witness: agents built from donor brains are live next to agents of the
\* terminated pool.
C10_Witness ==
  /\ generationCount > 0
  /\ Len(savedagents) > 0
  /\ \E i \in 1..Len(agents) : \E j \in 1..Len(savedagents) :
       Weight(agents[i].brain) = Weight(savedagents[j].brain)

\* ------------------------------------------- brain operations on their own
\* The operations of nn.js applied in any order to any instance of one heap.
\* The sketch is parked: only brains and last change.
sketchVars == <<agents, savedagents, generationCount, changeMap, bestP,
                currentTrackPresetIndex, nextAgent, inflight, cyclesLeft,
                storedGen, disposeThrows, storageFull, calls, useAfterRelease,
                starved, dropped>>

Parked ==
  /\ agents = <<>> /\ savedagents = <<>> /\ generationCount = 0
  /\ changeMap = FALSE /\ bestP = 0 /\ currentTrackPresetIndex = 0
  /\ nextAgent = 1 /\ inflight = <<>> /\ cyclesLeft = 0 /\ storedGen = -1
  /\ disposeThrows = FALSE /\ storageFull = FALSE /\ calls = 0 /\ useAfterRelease = FALSE
  /\ starved = FALSE /\ dropped = [live |-> {}, pool |-> {}]

NNOp(op, b) == [op |-> op, n |-> b, call |-> NoCall]

NNInit ==
  /\ Parked
  /\ brains = [cells |-> <<Brain(1)>>, fresh |-> 2]
  /\ last = NNOp("new", 1)
  /\ probe = NoProbe

\* new NeuralNetwork(...)
NNNew ==
  /\ Len(brains.cells) < MaxBrains /\ brains.fresh <= MaxTokens
  /\ brains' = NewBrain(brains)
  /\ last' = NNOp("new", NextBrain(brains))
  /\ UNCHANGED <<sketchVars, probe>>

\* b.copy()
NNCopy ==
  /\ Len(brains.cells) < MaxBrains /\ brains.fresh <= MaxTokens
  /\ \E b \in 1..Len(brains.cells) :
       /\ brains' = Copy(brains, b)
       /\ last' = NNOp("copy", b)
  /\ UNCHANGED <<sketchVars, probe>>

\* b.mutate(rate) on an undisposed instance
NNMutate ==
  /\ brains.fresh <= MaxTokens
  /\ \E b \in 1..Len(brains.cells) : \E changed \in BOOLEAN :
       /\ ~IsDisposed(brains, b)
       /\ brains' = Mutate(brains, b, changed)
       /\ last' = NNOp("mutate", b)
  /\ UNCHANGED <<sketchVars, probe>>

\* b.dispose() on an undisposed instance
NNDispose ==
  /\ \E b \in 1..Len(brains.cells) :
       /\ ~IsDisposed(brains, b)
       /\ brains' = Dispose(brains, b)
       /\ last' = NNOp("dispose", b)
  /\ UNCHANGED <<sketchVars, probe>>

SpecNN == NNInit /\ [][NNNew \/ NNCopy \/ NNMutate \/ NNDispose]_vars

\* C11: copy() of an undisposed brain adds a new instance with the source's
\* weights, itself undisposed; and every operation leaves the weights and the
\* disposed count of every instance other than its target unchanged.
C11_CloneIndependence ==
  [][/\ (last'.op = "copy" /\ ~IsDisposed(brains, last'.n)) =>
          /\ Len(brains'.cells) = Len(brains.cells) + 1
          /\ brains'.cells[Len(brains'.cells)] = Brain(brains.cells[last'.n].w)
     /\ \A b \in 1..Len(brains.cells) :
          (b # last'.n \/ last'.op \in {"copy", "new"}) =>
             brains'.cells[b] = brains.cells[b]]_vars

\* C11 witness: an instance has just been disposed while another instance
\* that carries the same weights (its clone or its source) is undisposed.
C11_Witness ==
  /\ last.op = "dispose"
  /\ \E c \in 1..Len(brains.cells) :
       c # last.n /\ Weight(c) = Weight(last.n) /\ Releases(c) = 0

\* C11 witness for mutate: a clone and its source, one of them mutated since.
C11_WitnessMutate ==
  /\ last.op = "mutate"
  /\ Len(brains.cells) >= 2
  /\ \A c \in 1..Len(brains.cells) : c # last.n => Weight(c) = 1
  /\ Weight(last.n) # 1

\* C29: copy() invoked on a disposed brain returns no network: the heap
\* holds no instance it did not hold before the call.
C29_CopyOfDisposedFails ==
  [][(last'.op = "copy" /\ IsDisposed(brains, last'.n)) =>
        brains'.cells = brains.cells]_vars

\* ------------------------------- fitness and selection on their own (ga.js)
\* Fitness values as exact fractions num/den.  den = 0 stands for the result
\* of a division by zero (NaN or Infinity).
Rat(n, d) == [num |-> n, den |-> d]
RatAdd(a, b) == Rat(a.num * b.den + b.num * a.den, a.den * b.den)
RatSub(a, b) == Rat(a.num * b.den - b.num * a.den, a.den * b.den)
RatDiv(a, b) == Rat(a.num * b.den, a.den * b.num)
RatEq(a, b) == a.den # 0 /\ b.den # 0 /\ a.num * b.den = b.num * a.den
RatLess(a, b) == a.num * b.den < b.num * a.den
RatPositive(a) == a.num > 0

\* A power function that maps the exponent 0 to 0.
RECURSIVE Pow2Zero(_)
Pow2Zero(c) == IF c = 0 THEN 0 ELSE 2 * Pow2Zero(c - 1)

\* pow(2, c) for a raw count c
RECURSIVE Pow2(_)
Pow2(c) == IF c = 0 THEN 1 ELSE 2 * Pow2(c - 1)

\* A shaping that is linear in the raw count.
ParticleLinearFitness(a) == [a EXCEPT !.fitness = Rat(a.fitness.num + 1, 1)]

\* Particle.calculateFitness: this.fitness = pow(2, this.fitness), for a
\* fitness that is a raw count.
ParticleCalculateFitness(a) == [a EXCEPT !.fitness = Rat(Pow2(a.fitness.num), 1)]

\* let sum = 0; for (particle of savedAgents) sum += particle.fitness
RECURSIVE FitnessSum(_, _)
FitnessSum(pool, i) ==
  IF i = 0 THEN Rat(0, 1) ELSE RatAdd(FitnessSum(pool, i - 1), pool[i].fitness)

\* particle.fitness = particle.fitness / sum
Divided(pool, sum) ==
  [i \in 1..Len(pool) |-> [pool[i] EXCEPT !.fitness = RatDiv(pool[i].fitness, sum)]]

Shaped(pool) == [i \in 1..Len(pool) |-> ParticleCalculateFitness(pool[i])]

\* calculateFitness on a pool of raw counts, in exact arithmetic.
calculateFitnessExact(pool) == Divided(Shaped(pool), FitnessSum(Shaped(pool), Len(pool)))

\* currentSavedAgents.sort((a, b) => b.fitness - a.fitness) on exact values.
RECURSIVE InsertDescExact(_, _)
InsertDescExact(s, a) ==
  IF s = <<>> THEN <<a>>
  ELSE IF ~RatLess(Head(s).fitness, a.fitness)
       THEN <<Head(s)>> \o InsertDescExact(Tail(s), a)
       ELSE <<a>> \o s

RECURSIVE SortDescExact(_)
SortDescExact(s) ==
  IF s = <<>> THEN <<>>
  ELSE InsertDescExact(SortDescExact(SubSeq(s, 1, Len(s) - 1)), s[Len(s)])

\* A walk that also steps on when r has reached exactly 0.
RECURSIVE RouletteWalkInclusive(_, _, _)
RouletteWalkInclusive(pool, r, index) ==
  IF r.num >= 0
  THEN (IF index >= Len(pool) THEN -1
        ELSE RouletteWalkInclusive(pool, RatSub(r, pool[index + 1].fitness), index + 1))
  ELSE index - 1

\* pickOne, lines 88-94: index = 0; while (r > 0) { r -= savedAgents[index]
\* .fitness; index++ }; index--.  The result is the 0-based index of the
\* parent; -1 stands for the TypeError of reading savedAgents[index] outside
\* the array (index -1 after r = 0, or index = length inside the loop).
RECURSIVE RouletteWalk(_, _, _)
RouletteWalk(pool, r, index) ==
  IF RatPositive(r)
  THEN (IF index >= Len(pool) THEN -1
        ELSE RouletteWalk(pool, RatSub(r, pool[index + 1].fitness), index + 1))
  ELSE index - 1

\* A terminated pool as the sketch hands it over: raw counts, any order.
\* c keeps the raw count each agent came with.
GAInit ==
  /\ Parked
  /\ brains = [cells |-> <<>>, fresh |-> 1]
  /\ last = NNOp("none", 0)
  /\ \E n \in 1..MaxPool : \E f \in [1..n -> 0..MaxCount] :
       probe = [NoProbe EXCEPT
                  !.stage = "raw",
                  !.pool = [i \in 1..n |-> [c |-> f[i], fitness |-> Rat(f[i], 1)]]]

\* calculateFitness(currentSavedAgents)
GACalculateFitness ==
  /\ probe.stage = "raw"
  /\ probe' = [probe EXCEPT !.stage = "normalised",
                            !.pool = calculateFitnessExact(probe.pool)]
  /\ UNCHANGED <<sketchVars, brains, last>>

\* currentSavedAgents.sort(...)
GASort ==
  /\ probe.stage = "normalised"
  /\ probe' = [probe EXCEPT !.stage = "sorted", !.pool = SortDescExact(probe.pool)]
  /\ UNCHANGED <<sketchVars, brains, last>>

\* The draws r = random(1) in [0,1): multiples of half the smallest step
\* between cumulative fitness sums, so that every interval bound and a point
\* strictly inside every interval is drawn.
\* pickOne(currentSavedAgents): the selection walk.
GAPickOne ==
  /\ probe.stage = "sorted"
  /\ \E r \in {Rat(k, 2 * probe.pool[1].fitness.den) :
                 k \in 0..(2 * probe.pool[1].fitness.den - 1)} :
       probe' = [probe EXCEPT !.stage = "picked", !.r = r,
                              !.index = RouletteWalk(probe.pool, r, 0)]
  /\ UNCHANGED <<sketchVars, brains, last>>

SpecGA == GAInit /\ [][GACalculateFitness \/ GASort \/ GAPickOne]_vars

Fitnesses == [i \in 1..Len(probe.pool) |-> probe.pool[i].fitness]
Counts == [i \in 1..Len(probe.pool) |-> probe.pool[i].c]

RECURSIVE SumPow2(_, _)
SumPow2(cs, i) == IF i = 0 THEN 0 ELSE SumPow2(cs, i - 1) + Pow2(cs[i])

\* C12: after calculateFitness on a pool of raw counts c_1..c_n every fitness
\* equals 2^c_i / (2^c_1 + ... + 2^c_n), the fitnesses sum to 1, and agent i
\* has a larger fitness than agent j exactly when it has the larger raw count.
C12_ShapedAndNormalised ==
  probe.stage = "normalised" =>
    /\ \A i \in 1..Len(probe.pool) :
         RatEq(Fitnesses[i], Rat(Pow2(Counts[i]), SumPow2(Counts, Len(Counts))))
    /\ RatEq(FitnessSum(probe.pool, Len(probe.pool)), Rat(1, 1))
    /\ \A i, j \in 1..Len(probe.pool) :
         RatLess(Fitnesses[j], Fitnesses[i]) <=> Counts[j] < Counts[i]

\* C12 witness: the pool with raw counts 1, 2, 0 has been normalised to
\* 2/7, 4/7, 1/7.
C12_Witness ==
  /\ probe.stage = "normalised"
  /\ Counts = <<1, 2, 0>>
  /\ RatEq(Fitnesses[1], Rat(2, 7)) /\ RatEq(Fitnesses[2], Rat(4, 7))
  /\ RatEq(Fitnesses[3], Rat(1, 7))

AllZero == \A i \in 1..Len(probe.pool) : Counts[i] = 0

\* C13: for a pool whose raw counts are all 0 the sum divided by is not 0,
\* every fitness is 1/n, and the selection walk with a draw r > 0 ends on an
\* agent of the pool.
C13_AllZeroPool ==
  AllZero =>
    /\ probe.stage \in {"normalised", "sorted", "picked"} =>
         \A i \in 1..Len(probe.pool) :
           /\ Fitnesses[i].den # 0
           /\ RatEq(Fitnesses[i], Rat(1, Len(probe.pool)))
    /\ (probe.stage = "picked" /\ RatPositive(probe.r)) =>
         probe.index \in 0..(Len(probe.pool) - 1)

\* C13 witness: a parent has been selected from an all-zero pool of more than
\* one agent.
C13_Witness ==
  /\ AllZero /\ Len(probe.pool) > 1
  /\ probe.stage = "picked" /\ RatPositive(probe.r) /\ probe.index > 0

\* f_1 + ... + f_i
CumulativeFitness(i) == FitnessSum(probe.pool, i)

\* C16: for a sorted normalised pool and a draw r in (0,1), pickOne selects
\* the agent with the least index i such that f_1 + ... + f_i >= r.
C16_RouletteWheel ==
  (probe.stage = "picked" /\ RatPositive(probe.r)) =>
    /\ probe.index \in 0..(Len(probe.pool) - 1)
    /\ ~RatLess(CumulativeFitness(probe.index + 1), probe.r)
    /\ RatLess(CumulativeFitness(probe.index), probe.r)
    /\ \A i \in 1..(Len(probe.pool) - 1) :
         ~RatLess(probe.pool[i].fitness, probe.pool[i + 1].fitness)

\* C16 witness: the draw equals the upper bound f_1 of the first interval of
\* a pool with more than one agent, and the first agent is selected.
C16_Witness ==
  /\ probe.stage = "picked" /\ Len(probe.pool) > 1
  /\ RatEq(probe.r, probe.pool[1].fitness)
  /\ probe.index = 0

\* C16 witness: a draw strictly inside the last interval selects the last agent.
C16_WitnessLast ==
  /\ probe.stage = "picked" /\ Len(probe.pool) = MaxPool
  /\ probe.index = Len(probe.pool) - 1
  /\ RatLess(probe.r, Rat(1, 1))
  /\ RatLess(CumulativeFitness(Len(probe.pool) - 1), probe.r)

\* C37: for every draw r in [0,1), r = 0 included, the selection walk over
\* a sorted normalised pool ends on an index of the pool.
C37_PickOneInRange ==
  probe.stage = "picked" => probe.index \in 0..(Len(probe.pool) - 1)

\* ------------------------------------------------ mutate on weight scalars
\* NeuralNetwork.mutate(rate) on the weight values themselves.  A brain's
\* weights are a sequence of tensors, a tensor the sequence of its scalars;
\* probe holds the source weights, the rate, the draws and the result.

\* The weight tensors a source brain can hold.
\* createModel: one kernel and one bias tensor, with initial values.
TensorSizes == <<MaxTensor, 1>>
SourceWeights ==
  {w \in [1..Len(TensorSizes) -> UNION {[1..n -> 0..1] : n \in 1..MaxTensor}] :
     \A i \in 1..Len(TensorSizes) : Len(w[i]) = TensorSizes[i]}

\* The scalar positions (tensor i, element j) of weights w.
Positions(w) == {p \in (1..Len(w)) \X (1..MaxTensor) : p[2] <= Len(w[p[1]])}

\* The inner loop that perturbs on random(1) <= rate.
MutateValuesInclusive(values, i, rate, r, g) ==
  [j \in 1..Len(values) |->
     IF ~RatLess(rate, r[<<i, j>>]) THEN values[j] + g[<<i, j>>] ELSE values[j]]

\* The inner loop of mutate over the values of tensor i:
\* if (random(1) < rate) values[j] = w + randomGaussian().
MutateValues(values, i, rate, r, g) ==
  [j \in 1..Len(values) |->
     IF RatLess(r[<<i, j>>], rate) THEN values[j] + g[<<i, j>>] ELSE values[j]]

\* mutate(rate): every tensor is replaced by tf.tensor(values, shape).
mutate(w, rate, r, g) ==
  [i \in 1..Len(w) |-> MutateValues(w[i], i, rate, r, g)]

MutateInit ==
  /\ Parked
  /\ brains = [cells |-> <<>>, fresh |-> 1]
  /\ last = NNOp("none", 0)
  /\ \E w \in SourceWeights, rate \in {Rat(0, 2), Rat(1, 2), Rat(2, 2)} :
       probe = [stage |-> "source", source |-> w, weights |-> w, rate |-> rate,
                r |-> <<>>, g |-> <<>>]

\* brain.mutate(rate): r holds the draws of random(1), uniform on [0, 1), and
\* g the samples of randomGaussian().
MutateCall ==
  /\ probe.stage = "source"
  /\ \E r \in [Positions(probe.source) -> {Rat(0, 2), Rat(1, 2)}],
        g \in [Positions(probe.source) -> {-1, 1}] :
       probe' = [probe EXCEPT !.stage = "mutated", !.r = r, !.g = g,
                              !.weights = mutate(probe.source, probe.rate, r, g)]
  /\ UNCHANGED <<sketchVars, brains, last>>

SpecMutate == MutateInit /\ [][MutateCall]_vars

\* The scalar at position p of the result differs from the source's.
Perturbed(p) == probe.weights[p[1]][p[2]] # probe.source[p[1]][p[2]]

\* C27: after mutate(rate) the weights have the source's number of tensors
\* and tensor sizes; every scalar either equals the source's or is the
\* source's plus the one sample drawn for it, and which of the two depends
\* on its own draw only; with rate 0 the weights equal the source's and
\* with rate 1 every scalar differs from the source's.
C27_MutationRule ==
  probe.stage = "mutated" =>
    /\ Len(probe.weights) = Len(probe.source)
    /\ \A i \in 1..Len(probe.source) : Len(probe.weights[i]) = Len(probe.source[i])
    /\ \A p \in Positions(probe.source) :
         /\ Perturbed(p) =>
              probe.weights[p[1]][p[2]] = probe.source[p[1]][p[2]] + probe.g[p]
         /\ Perturbed(p) <=> RatLess(probe.r[p], probe.rate)
    /\ RatEq(probe.rate, Rat(0, 1)) => probe.weights = probe.source
    /\ RatEq(probe.rate, Rat(1, 1)) => \A p \in Positions(probe.source) : Perturbed(p)

\* C27 witness: mutate at rate 0 ran although every draw was 0.
C27_Witness ==
  /\ probe.stage = "mutated" /\ RatEq(probe.rate, Rat(0, 1))
  /\ \A p \in Positions(probe.source) : RatEq(probe.r[p], Rat(0, 1))

\* mutate at rate 1 ran; mutate at an intermediate rate perturbed some
\* scalars and kept others.
C27_WitnessAll ==
  probe.stage = "mutated" /\ RatEq(probe.rate, Rat(1, 1))

C27_WitnessSome ==
  /\ probe.stage = "mutated"
  /\ \E p, q \in Positions(probe.source) : Perturbed(p) /\ ~Perturbed(q)

\* ------------------------------------------------------ Ray.cast (ray.js)
\* Ray.cast on its own, in exact arithmetic: a wall between two grid points
\* and a ray from a grid point along an axis.  probe holds the wall, the
\* ray and the returned point.

\* createVector(x, y)
Vec(x, y) == [x |-> x, y |-> y]

\* num/den with a positive denominator.
Frac(n, d) == IF d < 0 THEN Rat(-n, -d) ELSE Rat(n, d)

\* The grid points.
GridPoints == {Vec(x, y) : x \in 0..MaxGrid, y \in 0..MaxGrid}

\* The far end of the ray: pos + dir * SIGHT.
RayEnd(ray) == Vec(ray.pos.x + ray.dir.x * SIGHT, ray.pos.y + ray.dir.y * SIGHT)

\* den, and the numerators of t and u, as cast computes them.
CastDen(wall, ray) ==
  (wall.a.x - wall.b.x) * (ray.pos.y - RayEnd(ray).y)
    - (wall.a.y - wall.b.y) * (ray.pos.x - RayEnd(ray).x)

CastT(wall, ray) ==
  Frac((wall.a.x - ray.pos.x) * (ray.pos.y - RayEnd(ray).y)
         - (wall.a.y - ray.pos.y) * (ray.pos.x - RayEnd(ray).x),
       CastDen(wall, ray))

CastU(wall, ray) ==
  Frac(-((wall.a.x - wall.b.x) * (wall.a.y - ray.pos.y)
         - (wall.a.y - wall.b.y) * (wall.a.x - ray.pos.x)),
       CastDen(wall, ray))

\* return; (undefined) and return pt.
NoPoint == [hit |-> FALSE, x |-> Rat(0, 1), y |-> Rat(0, 1)]

PointAt(wall, t) ==
  [hit |-> TRUE,
   x |-> Rat(wall.a.x * t.den + t.num * (wall.b.x - wall.a.x), t.den),
   y |-> Rat(wall.a.y * t.den + t.num * (wall.b.y - wall.a.y), t.den)]

Inside01(q) == RatPositive(q) /\ RatLess(q, Rat(1, 1))

\* A cast that accepts t and u on the closed interval [0, 1].
castClosed(wall, ray) ==
  IF CastDen(wall, ray) = 0 THEN NoPoint
  ELSE IF /\ CastT(wall, ray).num >= 0 /\ ~RatLess(Rat(1, 1), CastT(wall, ray))
          /\ CastU(wall, ray).num >= 0 /\ ~RatLess(Rat(1, 1), CastU(wall, ray))
       THEN PointAt(wall, CastT(wall, ray))
       ELSE NoPoint

\* Ray.cast(wall)
cast(wall, ray) ==
  IF CastDen(wall, ray) = 0 THEN NoPoint
  ELSE IF Inside01(CastT(wall, ray)) /\ Inside01(CastU(wall, ray))
       THEN PointAt(wall, CastT(wall, ray))
       ELSE NoPoint

CastInit ==
  /\ Parked
  /\ brains = [cells |-> <<>>, fresh |-> 1]
  /\ last = NNOp("none", 0)
  /\ \E a \in GridPoints, b \in GridPoints, pos \in GridPoints,
        dir \in {Vec(1, 0), Vec(0, 1), Vec(-1, 0), Vec(0, -1)} :
       probe = [stage |-> "aimed", wall |-> [a |-> a, b |-> b],
                ray |-> [pos |-> pos, dir |-> dir], pt |-> NoPoint]

\* ray.cast(wall)
CastCall ==
  /\ probe.stage = "aimed"
  /\ probe' = [probe EXCEPT !.stage = "cast", !.pt = cast(probe.wall, probe.ray)]
  /\ UNCHANGED <<sketchVars, brains, last>>

SpecCast == CastInit /\ [][CastCall]_vars

\* Twice the signed area of the triangle p, q, r: 0 iff r is on the line
\* through p and q, and its sign tells the side.
Cross(p, q, r) == (q.x - p.x) * (r.y - p.y) - (q.y - p.y) * (r.x - p.x)

\* The open segments ab and cd cross in one point interior to both.
ProperlyCross(a, b, c, d) ==
  /\ Cross(c, d, a) * Cross(c, d, b) < 0
  /\ Cross(a, b, c) * Cross(a, b, d) < 0

\* The returned point lies on the line through p and q.
PtOnLine(pt, p, q) ==
  /\ pt.x.den # 0 /\ pt.y.den # 0
  /\ RatEq(Rat((q.x - p.x) * (pt.y.num - p.y * pt.y.den) * pt.x.den, pt.y.den * pt.x.den),
           Rat((q.y - p.y) * (pt.x.num - p.x * pt.x.den) * pt.y.den, pt.x.den * pt.y.den))

\* The wall is perpendicular to the ray and crosses its line between its
\* endpoints at distance d (negative: behind the origin) along the ray.
PerpendicularAt(wall, ray, d) ==
  /\ wall.a # wall.b
  /\ (wall.b.x - wall.a.x) * ray.dir.x + (wall.b.y - wall.a.y) * ray.dir.y = 0
  /\ (wall.a.x - ray.pos.x) * ray.dir.x + (wall.a.y - ray.pos.y) * ray.dir.y = d
  /\ Cross(ray.pos, RayEnd(ray), wall.a) * Cross(ray.pos, RayEnd(ray), wall.b) < 0

\* C28: cast returns a point exactly when the wall and the ray cross in a
\* point interior to both (not at the ray's origin, not at range SIGHT, not
\* at an end of the wall); the point lies on both; a perpendicular wall
\* crossed at distance 0 < d < SIGHT gives the point at distance d and one
\* at d <= 0 or d >= SIGHT gives none; a parallel or degenerate wall gives
\* none; and a returned point has defined coordinates.
C28_RayWallIntersection ==
  probe.stage = "cast" =>
    /\ probe.pt.hit <=>
         ProperlyCross(probe.wall.a, probe.wall.b, probe.ray.pos, RayEnd(probe.ray))
    /\ probe.pt.hit =>
         /\ PtOnLine(probe.pt, probe.wall.a, probe.wall.b)
         /\ PtOnLine(probe.pt, probe.ray.pos, RayEnd(probe.ray))
    /\ \A d \in (-MaxGrid)..MaxGrid :
         PerpendicularAt(probe.wall, probe.ray, d) =>
           IF 0 < d /\ d < SIGHT
           THEN /\ probe.pt.hit
                /\ RatEq(probe.pt.x, Rat(probe.ray.pos.x + d * probe.ray.dir.x, 1))
                /\ RatEq(probe.pt.y, Rat(probe.ray.pos.y + d * probe.ray.dir.y, 1))
           ELSE ~probe.pt.hit
    /\ Cross(probe.wall.a, probe.wall.b,
             Vec(probe.wall.a.x + probe.ray.dir.x, probe.wall.a.y + probe.ray.dir.y)) = 0
         => ~probe.pt.hit

\* C28 witness: a perpendicular wall crossed at a distance below SIGHT gave
\* its point.
C28_Witness ==
  /\ probe.stage = "cast" /\ probe.pt.hit
  /\ \E d \in 1..(SIGHT - 1) : PerpendicularAt(probe.wall, probe.ray, d)

\* A perpendicular wall crossed exactly at range SIGHT, a wall through the
\* ray's origin, and a wall parallel to the ray on the ray's line gave none.
C28_WitnessAtRange ==
  probe.stage = "cast" /\ PerpendicularAt(probe.wall, probe.ray, SIGHT)

C28_WitnessAtOrigin ==
  probe.stage = "cast" /\ PerpendicularAt(probe.wall, probe.ray, 0)

C28_WitnessParallel ==
  /\ probe.stage = "cast" /\ probe.wall.a # probe.wall.b
  /\ Cross(probe.ray.pos, RayEnd(probe.ray), probe.wall.a) = 0
  /\ Cross(probe.ray.pos, RayEnd(probe.ray), probe.wall.b) = 0

\* ------------------------------------------- the sensing half of look
\* Particle.look up to the observation vector, in exact arithmetic: NumRays
\* rays from one grid point along the horizontal axis, walls between grid
\* points that cross that axis, and obstacles on the axis at half-unit
\* positions.  Every distance look takes is between two points of the axis.
\* probe holds the rays, the walls, the obstacles and the vector.

\* p5.Vector.dist for two points of the axis, given by their x.
Dist(px, qx) ==
  IF RatLess(px, qx) THEN RatSub(qx, px) ELSE RatSub(px, qx)

\* Ray.checkobstacle: the first of the nearest obstacles that
\* collidePointLine(obstacle, p1, p2, 1) accepts, i.e. whose distances to
\* the two ends of the ray add up to the ray's length give or take 1; ob is
\* the obstacle found so far.
RECURSIVE checkobstacle(_, _, _)
checkobstacle(ray, obstacles, ob) ==
  IF obstacles = <<>> THEN ob
  ELSE LET o == Head(obstacles)
           p1 == Rat(ray.pos.x, 1)
           p2 == Rat(RayEnd(ray).x, 1)
           sum == RatAdd(Dist(o, p1), Dist(o, p2))
           collide == /\ ~RatLess(sum, RatSub(Dist(p1, p2), Rat(1, 1)))
                      /\ ~RatLess(RatAdd(Dist(p1, p2), Rat(1, 1)), sum)
           nearer == ~ob.found \/ RatLess(Dist(p1, o), Dist(p1, ob.x))
       IN  checkobstacle(ray, Tail(obstacles),
                         IF collide /\ nearer THEN [found |-> TRUE, x |-> o] ELSE ob)

\* The loop over the walls in look: record is the smallest distance so far.
RECURSIVE CastWalls(_, _, _)
CastWalls(ray, walls, record) ==
  IF walls = <<>> THEN record
  ELSE LET pt == cast(Head(walls), ray)
           d == Dist(Rat(ray.pos.x, 1), pt.x)
       IN  CastWalls(ray, Tail(walls),
                     IF pt.hit /\ RatLess(d, record) /\ RatLess(d, Rat(SIGHT, 1))
                     THEN d ELSE record)

\* A look that takes the distance of the obstacle found as it is.
LookRecordUnclipped(ray, walls, obstacles) ==
  LET ob == checkobstacle(ray, obstacles, [found |-> FALSE, x |-> Rat(0, 1)])
  IN  CastWalls(ray, walls,
                IF ob.found THEN Dist(Rat(ray.pos.x, 1), ob.x) ELSE Rat(SIGHT, 1))

\* The record of one ray in look: sight, then the obstacle found if it is
\* nearer, then every wall hit that is nearer.
LookRecord(ray, walls, obstacles) ==
  LET ob == checkobstacle(ray, obstacles, [found |-> FALSE, x |-> Rat(0, 1)])
      distance == Dist(Rat(ray.pos.x, 1), ob.x)
  IN  CastWalls(ray, walls,
                IF ob.found /\ RatLess(distance, Rat(SIGHT, 1))
                THEN distance ELSE Rat(SIGHT, 1))

\* p5's map(n, start1, stop1, start2, stop2), without clamping.
map(n, start1, stop1, start2, stop2) ==
  RatAdd(Rat((n.num - start1 * n.den) * (stop2 - start2), n.den * (stop1 - start1)),
         Rat(start2, 1))

LookInit ==
  /\ Parked
  /\ brains = [cells |-> <<>>, fresh |-> 1]
  /\ last = NNOp("none", 0)
  /\ \E dirs \in [1..NumRays -> {Vec(1, 0), Vec(-1, 0)}],
        walls \in UNION {[1..n -> {[a |-> Vec(i, 0), b |-> Vec(j, 2)] :
                                     i \in 0..MaxGrid, j \in 0..MaxGrid}] : n \in 0..2},
        obstacles \in UNION {[1..n -> {Rat(h, 2) : h \in 0..(2 * MaxGrid + 1)}] :
                               n \in 0..2} :
       probe = [stage |-> "aimed",
                rays |-> [i \in 1..NumRays |-> [pos |-> Vec(1, 1), dir |-> dirs[i]]],
                walls |-> walls, obstacles |-> obstacles, inputs |-> <<>>]

\* look(walls, obstacles): inputs[i] = map(record, 0, SIGHT, 1, 0)
LookCall ==
  /\ probe.stage = "aimed"
  /\ probe' = [probe EXCEPT
       !.stage = "looked",
       !.inputs = [i \in 1..Len(probe.rays) |->
                     map(LookRecord(probe.rays[i], probe.walls, probe.obstacles),
                         0, SIGHT, 1, 0)]]
  /\ UNCHANGED <<sketchVars, brains, last>>

SpecLook == LookInit /\ [][LookCall]_vars

\* The distances ray i detects: of every obstacle on the ray or at most half
\* a unit beyond one of its ends, and of every wall the ray crosses.
Detected(i) ==
  LET ray == probe.rays[i]
      p1 == Rat(ray.pos.x, 1)
      along(x) == Rat((x.num - ray.pos.x * x.den) * ray.dir.x, x.den)
  IN  {Dist(p1, probe.obstacles[k]) : k \in
         {k \in 1..Len(probe.obstacles) :
            /\ ~RatLess(along(probe.obstacles[k]), Rat(-1, 2))
            /\ ~RatLess(Rat(2 * SIGHT + 1, 2), along(probe.obstacles[k]))}}
      \cup
      {Dist(p1, cast(probe.walls[k], ray).x) : k \in
         {k \in 1..Len(probe.walls) : cast(probe.walls[k], ray).hit}}

\* C34: the observation vector has one entry per ray; entry i is
\* 1 - record/SIGHT, where record is the least of SIGHT and the distances
\* the ray detects; so it is within [0, 1], and 0 when nothing is detected
\* within SIGHT.
C34_SensorReading ==
  probe.stage = "looked" =>
    /\ Len(probe.inputs) = NumRays
    /\ \A i \in 1..NumRays :
         \E record \in Detected(i) \cup {Rat(SIGHT, 1)} :
           /\ \A d \in Detected(i) \cup {Rat(SIGHT, 1)} : ~RatLess(d, record)
           /\ RatEq(probe.inputs[i], RatSub(Rat(1, 1), RatDiv(record, Rat(SIGHT, 1))))
           /\ ~RatLess(probe.inputs[i], Rat(0, 1))
           /\ ~RatLess(Rat(1, 1), probe.inputs[i])
           /\ (\A d \in Detected(i) : ~RatLess(d, Rat(SIGHT, 1)))
                => RatEq(probe.inputs[i], Rat(0, 1))

\* C34 witness: a ray has an obstacle and two walls within SIGHT, the
\* second wall nearest and the obstacle farthest, and reads strictly
\* between 0 and 1.
C34_Witness ==
  /\ probe.stage = "looked"
  /\ Len(probe.walls) = 2 /\ Len(probe.obstacles) = 2
  /\ cast(probe.walls[1], probe.rays[2]).hit /\ cast(probe.walls[2], probe.rays[2]).hit
  /\ RatLess(Dist(Rat(1, 1), cast(probe.walls[2], probe.rays[2]).x),
             Dist(Rat(1, 1), cast(probe.walls[1], probe.rays[2]).x))
  /\ RatLess(Dist(Rat(1, 1), cast(probe.walls[1], probe.rays[2]).x),
             Dist(Rat(1, 1), probe.obstacles[2]))
  /\ Dist(Rat(1, 1), probe.obstacles[2]) \in Detected(2)
  /\ RatLess(Dist(Rat(1, 1), probe.obstacles[2]), Rat(SIGHT, 1))
  /\ RatPositive(probe.inputs[2]) /\ RatLess(probe.inputs[2], Rat(1, 1))

\* A ray whose only detection is an obstacle beyond its end, which
\* checkobstacle accepts, reads 0.
C34_WitnessBeyond ==
  /\ probe.stage = "looked"
  /\ Detected(1) # {}
  /\ \A d \in Detected(1) : RatLess(Rat(SIGHT, 1), d)
  /\ RatEq(probe.inputs[1], Rat(0, 1))

\* ------------------------------------- control steps of one generation
\* A third view of the sketch: the agents of one generation with every field
\* of Particle, stepped by the cycles of draw() until the live set is empty.
\* The generation advance is left to the specification of the sketch above:
\* here the fitness threshold is out of reach and a behaviour ends with the
\* last agent.  Motion is along one axis, in units of maxforce.  The brain
\* is a black box whose output is an input of the step.  agents and
\* savedagents hold the full records, bestP the identity of the best live
\* agent, and probe the obstacle, the mode, allTimeBestLaps and the counts
\* of cycles and obstacle motions of the current frame.

\* p5.Vector.limit on one axis
Limit(v, max) == IF v * v > max * max THEN (IF v > 0 THEN max ELSE -max) ELSE v

\* new Particle(): ray.js 165-202.  record and d are the smallest ray record
\* and the checkpoint distance of the agent's latest control step.
NewParticle(id) ==
  [id |-> id, dead |-> FALSE, finished |-> FALSE, index |-> 0, fitness |-> 0,
   counter |-> 0, lapsCompleted |-> 0, pos |-> StartPos, vel |-> 0, acc |-> 0,
   record |-> LethalDistance, d |-> CaptureRadius]

\* The records the rays of one agent can return, around the lethal distance,
\* the checkpoint distances around the capture radius, and the velocities
\* the brain can ask for: full speed along or against the axis.
Records == {LethalDistance - 1, LethalDistance}
ControlInputs ==
  [records : [1..NumRays -> Records], d : {CaptureRadius - 1, CaptureRadius},
   desired : {-maxspeed, maxspeed}]

SmallestRecord(records) ==
  CHOOSE r \in Records :
    /\ \E i \in 1..NumRays : records[i] = r
    /\ \A i \in 1..NumRays : records[i] >= r

\* A look that kills only when every ray is below the lethal distance.
ParticleLookEveryRay(a, records, desired) ==
  [a EXCEPT !.dead = a.dead \/ \A i \in 1..NumRays : records[i] < LethalDistance,
            !.record = SmallestRecord(records),
            !.acc = a.acc + Limit(desired - a.vel, maxforce)]

\* Particle.look: any ray record below 10 sets dead; the steering force
\* (desired - vel, limited to maxforce) is added to acc.
ParticleLook(a, records, desired) ==
  [a EXCEPT !.dead = a.dead \/ \E i \in 1..NumRays : records[i] < LethalDistance,
            !.record = SmallestRecord(records),
            !.acc = a.acc + Limit(desired - a.vel, maxforce)]

\* A check that counts the capture without moving on to the next checkpoint.
ParticleCheckSameGoal(a, d) ==
  IF ~a.finished /\ d < CaptureRadius
  THEN [a EXCEPT !.fitness = a.fitness + 1, !.counter = 0, !.d = d]
  ELSE [a EXCEPT !.d = d]

\* Particle.check: within the capture radius the target index advances
\* modulo the number of checkpoints, fitness++ and counter = 0.
ParticleCheck(a, d) ==
  IF ~a.finished /\ d < CaptureRadius
  THEN [a EXCEPT !.index = (a.index + 1) % NumCheckpoints,
                 !.fitness = a.fitness + 1, !.counter = 0, !.d = d]
  ELSE [a EXCEPT !.d = d]

\* lapsCompleted is incremented when the target index wraps to 0.
CountLap(before, a) ==
  IF before.index = NumCheckpoints - 1 /\ a.index = 0
  THEN [a EXCEPT !.lapsCompleted = a.lapsCompleted + 1]
  ELSE a

\* Particle.bounds
ParticleBounds(a) ==
  IF a.pos > Width \/ a.pos < 0 THEN [a EXCEPT !.dead = TRUE] ELSE a

\* An update that neither limits the velocity nor clears the force.
ParticleUpdateUnlimited(a) ==
  IF ~a.dead /\ ~a.finished
  THEN [a EXCEPT !.pos = a.pos + a.vel,
                 !.vel = a.vel + a.acc,
                 !.counter = a.counter + 1,
                 !.dead = (a.counter + 1 > LIFESPAN)]
  ELSE a

\* An update that counts the frame only after the lifespan test.
ParticleUpdateLateCount(a) ==
  IF ~a.dead /\ ~a.finished
  THEN [a EXCEPT !.pos = a.pos + a.vel,
                 !.vel = Limit(a.vel + a.acc, maxspeed),
                 !.acc = 0,
                 !.counter = a.counter + 1,
                 !.dead = (a.counter > LIFESPAN)]
  ELSE a

\* An update without the guard on dead.
ParticleUpdateUnguarded(a) ==
  [a EXCEPT !.pos = a.pos + a.vel,
            !.vel = Limit(a.vel + a.acc, maxspeed),
            !.acc = 0,
            !.counter = a.counter + 1,
            !.dead = a.dead \/ (a.counter + 1 > LIFESPAN)]

\* Particle.update
ParticleUpdate(a) ==
  IF ~a.dead /\ ~a.finished
  THEN [a EXCEPT !.pos = a.pos + a.vel,
                 !.vel = Limit(a.vel + a.acc, maxspeed),
                 !.acc = 0,
                 !.counter = a.counter + 1,
                 !.dead = (a.counter + 1 > LIFESPAN)]
  ELSE a

\* The control step of one agent in one cycle of draw(): look, check,
\* bounds, update.
ControlStep(a, in) ==
  ParticleUpdate(ParticleBounds(CountLap(a,
    ParticleCheck(ParticleLook(a, in.records, in.desired), in.d))))

\* The best live agent at the end of a frame: the first of maximal fitness.
BestAgent(live) ==
  IF live = <<>> THEN 0
  ELSE live[CHOOSE i \in 1..Len(live) :
              /\ \A j \in 1..Len(live) : live[j].fitness <= live[i].fitness
              /\ \A j \in 1..(i - 1) : live[j].fitness < live[i].fitness].id

LapsOf(live, id) ==
  IF id = 0 THEN 0
  ELSE live[CHOOSE i \in 1..Len(live) : live[i].id = id].lapsCompleted

\* A frame end that takes the best agent's laps as they are.
BestLapsLatest(live, best, atb) == LapsOf(live, best)

\* if (bestP && bestP.lapsCompleted > allTimeBestLaps) allTimeBestLaps = ...
BestLaps(live, best, atb) ==
  IF best # 0 /\ LapsOf(live, best) > atb THEN LapsOf(live, best) ELSE atb

AgentInit ==
  /\ agents = [i \in 1..TOTAL |-> NewParticle(i)]
  /\ savedagents = <<>> /\ generationCount = 0
  /\ changeMap = FALSE /\ bestP = 0 /\ currentTrackPresetIndex = 0
  /\ nextAgent = TOTAL + 1 /\ inflight = <<>> /\ cyclesLeft = 0 /\ storedGen = -1
  /\ disposeThrows = FALSE /\ storageFull = FALSE /\ calls = 0
  /\ useAfterRelease = FALSE /\ starved = FALSE
  /\ dropped = [live |-> {}, pool |-> {}]
  /\ brains = [cells |-> <<>>, fresh |-> 1]
  /\ last = NNOp("none", 0)
  /\ \E o \in ObstaclePositions :
       probe = [stage |-> "run", toggle_value |-> FALSE, obstacle |-> o,
                allTimeBestLaps |-> 0, cycles |-> 0, motions |-> 0, sensed |-> {}]

\* One cycle of draw() (loadbinary.js 572-609): the control step of every
\* agent, then the sweep of the dead ones into savedagents.  The cycle that
\* ends the frame also runs the end of draw(): bestP, allTimeBestLaps and
\* the display of the obstacles, which moves them in dynamic mode.
DrawCycle ==
  /\ probe.stage = "run"
  /\ cyclesLeft > 0 \/ Len(agents) > 0
  /\ \A i \in 1..Len(agents) : agents[i].fitness < MaxCaptures
  /\ \E cycles \in (IF cyclesLeft = 0 THEN 1..MaxCycles ELSE {cyclesLeft}) :
     \E stepped \in {[i \in 1..Len(agents) |-> ControlStep(agents[i], in[i])] :
                       in \in [1..Len(agents) -> ControlInputs]} :
     \E live \in {SelectSeq(stepped, IsAlive)} :
     \E best \in {IF cycles = 1 THEN BestAgent(live) ELSE bestP} :
       /\ agents' = live
       /\ savedagents' = savedagents \o Reverse(SelectSeq(stepped, IsDead))
       /\ cyclesLeft' = cycles - 1
       /\ bestP' = best
       /\ last' = NNOp("cycle", 0)
       /\ \E o \in (IF cycles = 1 /\ probe.toggle_value
                    THEN ObstaclePositions ELSE {probe.obstacle}) :
            probe' = [probe EXCEPT
              !.obstacle = o,
              !.allTimeBestLaps =
                 IF cycles = 1 THEN BestLaps(live, best, probe.allTimeBestLaps)
                 ELSE probe.allTimeBestLaps,
              !.cycles = IF cyclesLeft = 0 THEN 1 ELSE probe.cycles + 1,
              !.motions = (IF cyclesLeft = 0 THEN 0 ELSE probe.motions)
                          + (IF cycles = 1 /\ probe.toggle_value THEN 1 ELSE 0),
              !.sensed = IF Len(agents) = 0 THEN {} ELSE {probe.obstacle}]
  /\ UNCHANGED <<generationCount, changeMap, currentTrackPresetIndex, nextAgent,
               inflight, storedGen, disposeThrows, storageFull, calls,
               useAfterRelease, starved, dropped, brains>>

\* toggle_btn(), between two frames: static <-> dynamic obstacles.
toggle_btn ==
  /\ probe.stage = "run" /\ cyclesLeft = 0 /\ Len(agents) > 0
  /\ probe' = [probe EXCEPT !.toggle_value = ~probe.toggle_value,
                            !.cycles = 0, !.motions = 0]
  /\ last' = NNOp("toggle", 0)
  /\ UNCHANGED <<generationCount, changeMap, currentTrackPresetIndex, nextAgent,
               inflight, storedGen, disposeThrows, storageFull, calls,
               useAfterRelease, starved, dropped, brains,
               agents, savedagents, cyclesLeft, bestP>>

SpecAgent == AgentInit /\ [][DrawCycle \/ toggle_btn]_vars

\* Every agent of the generation, live or terminated.
AllAgents == agents \o savedagents

\* C21: an agent whose latest control step recorded a ray distance below the
\* lethal distance is dead at the end of that cycle, whatever its distance
\* to the target checkpoint was.
C21_LethalProximity ==
  \A i \in 1..Len(AllAgents) :
    AllAgents[i].record < LethalDistance => AllAgents[i].dead

\* C21 witness: an agent died of a single short ray in the cycle in which it
\* was within the capture radius and captured.
C21_Witness ==
  \E i \in 1..Len(savedagents) :
    /\ savedagents[i].record < LethalDistance
    /\ savedagents[i].d < CaptureRadius
    /\ savedagents[i].fitness > 0
    /\ savedagents[i].pos \in 0..Width
    /\ savedagents[i].counter = 0

\* The record of the agent with identity id.
AgentById(all, id) == all[CHOOSE i \in 1..Len(all) : all[i].id = id]

\* update ran its body in the control step that led from a to b: neither
\* look nor bounds had set dead.
UpdateRan(a, b) == ~(b.record < LethalDistance) /\ a.pos \in 0..Width

\* C22: in a cycle in which an agent is within the capture radius of its
\* target checkpoint i, its target becomes (i + 1) mod count, its raw
\* fitness grows by exactly 1 and its frame counter restarts (0, or 1 when
\* update of that cycle counted its frame); in a cycle in which it is not,
\* target and fitness stay and the counter does not restart; and the target
\* is always in 0..count-1.
C22_CheckpointCapture ==
  [][last'.op = "cycle" =>
      \A i \in 1..Len(agents) :
        LET a == agents[i]
            b == AgentById(AllAgents', a.id)
            ran == IF UpdateRan(a, b) THEN 1 ELSE 0
        IN  /\ b.index \in 0..(NumCheckpoints - 1)
            /\ IF b.d < CaptureRadius
               THEN /\ b.index = (a.index + 1) % NumCheckpoints
                    /\ b.fitness = a.fitness + 1
                    /\ b.counter = ran
               ELSE /\ b.index = a.index
                    /\ b.fitness = a.fitness
                    /\ b.counter = a.counter + ran]_vars

\* C22 witness: a live agent has just captured its last checkpoint and
\* targets checkpoint 0 again.
C22_Witness ==
  \E i \in 1..Len(agents) :
    /\ agents[i].d < CaptureRadius
    /\ agents[i].fitness = NumCheckpoints
    /\ agents[i].index = 0
    /\ agents[i].counter = 1

C24_StagnationTimeout ==
  [][last'.op = "cycle" =>
      /\ \A i \in 1..Len(agents) :
           LET a == agents[i]
               b == AgentById(AllAgents', a.id)
           IN  /\ b.counter = (IF b.d < CaptureRadius THEN 0 ELSE a.counter)
                              + (IF UpdateRan(a, b) THEN 1 ELSE 0)
               /\ UpdateRan(a, b) => (b.dead <=> b.counter > LIFESPAN)
      /\ \A i \in 1..Len(agents') : agents'[i].counter <= LIFESPAN]_vars

\* C24 witness: an agent inside the canvas with no short ray died of the
\* counter, which is LIFESPAN + 1; another one captured in time and lives.
C24_Witness ==
  /\ \E i \in 1..Len(savedagents) :
       /\ savedagents[i].record >= LethalDistance
       /\ savedagents[i].counter = LIFESPAN + 1
  /\ \E i \in 1..Len(agents) :
       agents[i].fitness > 0 /\ agents[i].counter = LIFESPAN

\* C25: every agent a cycle steps was alive at its start; a terminated agent
\* stays in savedagents with every field unchanged, so it never becomes
\* alive again; and an agent that look or bounds kills is not integrated by
\* update in that cycle: its position and velocity stay.
C25_TerminalStatesInert ==
  [][/\ \A i \in 1..Len(savedagents) :
          /\ savedagents[i].dead
          /\ Len(savedagents') >= i /\ savedagents'[i] = savedagents[i]
     /\ last'.op = "cycle" =>
          \A i \in 1..Len(agents) :
            LET a == agents[i]
                b == AgentById(AllAgents', a.id)
            IN  /\ ~a.dead /\ ~a.finished
                /\ ~UpdateRan(a, b) =>
                     /\ b.dead
                     /\ b.pos = a.pos /\ b.vel = a.vel /\ b.counter <= a.counter
                /\ \A j \in 1..Len(agents') : ~agents'[j].dead]_vars

\* C25 witness: an agent died of a short ray in the first cycle, at the
\* start position and at rest, and the other agent has been stepped at
\* least twice since the start.
C25_Witness ==
  /\ \E i \in 1..Len(savedagents) :
       /\ savedagents[i].record < LethalDistance
       /\ savedagents[i].pos = StartPos /\ savedagents[i].vel = 0
       /\ savedagents[i].fitness = 0 /\ savedagents[i].counter = 0
  /\ \E i \in 1..Len(agents) : agents[i].fitness >= 2

\* C26: at the end of every cycle the speed of every agent, live or
\* terminated, is at most maxspeed, and a live agent carries no force over
\* to the next cycle.
C26_SpeedBound ==
  /\ \A i \in 1..Len(AllAgents) :
       AllAgents[i].vel * AllAgents[i].vel <= maxspeed * maxspeed
  /\ \A i \in 1..Len(agents) : agents[i].acc = 0

\* C26 witness: a live agent has reached maxspeed while the brain kept asking
\* for full speed, and is about to leave the canvas.
C26_Witness ==
  \E i \in 1..Len(agents) :
    /\ agents[i].vel * agents[i].vel = maxspeed * maxspeed
    /\ agents[i].pos \notin 0..Width

\* C30: in dynamic mode, at the end of every cycle of a frame the obstacles
\* have been moved once for each cycle the frame has run so far, and the
\* control steps of one cycle all read the same obstacle position.
C30_ObstacleMotionPerTick ==
  (probe.stage = "run" /\ last.op = "cycle") =>
     /\ probe.toggle_value => probe.motions = probe.cycles
     /\ Cardinality(probe.sensed) <= 1

\* C31: an agent that is dead at the end of a cycle has not captured in that
\* cycle: its target index and raw fitness are those it had at the start of
\* the cycle and its frame counter has not been restarted.
C31_KillBeforeCapture ==
  [][last'.op = "cycle" =>
      \A i \in 1..Len(agents) :
        LET a == agents[i]
            b == AgentById(AllAgents', a.id)
        IN  b.dead => /\ b.index = a.index
                      /\ b.fitness = a.fitness
                      /\ b.counter >= a.counter]_vars

\* C32: at the end of every cycle, every agent that is still alive has its
\* position inside the canvas.
C32_AliveInsideBounds ==
  (probe.stage = "run" /\ last.op = "cycle") =>
     \A i \in 1..Len(agents) : agents[i].pos \in 0..Width

\* C33: in a cycle in which update integrates an agent, its new position is
\* its old position plus its new, limited velocity, and its force is 0.
C33_IntegrationOrder ==
  [][last'.op = "cycle" =>
      \A i \in 1..Len(agents) :
        LET a == agents[i]
            b == AgentById(AllAgents', a.id)
        IN  UpdateRan(a, b) =>
              /\ b.vel * b.vel <= maxspeed * maxspeed
              /\ b.pos = a.pos + b.vel
              /\ b.acc = 0]_vars

\* ------------------------------------------------ claims about the sketch
\* C14: the fitness of a pool agent has been shaped and normalised at most
\* once, and the fitness of every live agent and of every agent of a pending
\* result is a raw count.
C14_FitnessNotConflated ==
  /\ \A j \in 1..Len(savedagents) : savedagents[j].fitness.norm <= 1
  /\ \A i \in 1..Len(agents) : agents[i].fitness.norm = 0
  /\ \A k \in 1..Len(inflight) : \A i \in 1..Len(inflight[k].newAgents) :
       inflight[k].newAgents[i].fitness.norm = 0

\* C15: every advance over a non-empty pool returns TOTAL agents of which the
\* first k = min(ELITISM_COUNT, |pool|) are unmutated copies and every other
\* one is a copy of the undisposed brain of a pool agent on which mutate ran
\* exactly once; the brains of the pool agents keep their weights.
C15_OffspringConstruction ==
  \A n \in 1..Len(inflight) :
    LET r == inflight[n]
    IN r.poolLen > 0 =>
         /\ r.kind # "error"
         /\ Len(r.made) = TOTAL
         /\ \A i \in 1..Len(r.made) :
              /\ r.made[i].donor \in r.poolBrains
              /\ r.made[i].live
              /\ r.made[i].mutated = IF i <= Min(ELITISM_COUNT, r.poolLen) THEN 0 ELSE 1
         /\ r.parentsKept

\* C17: an advance over an empty pool does not raise, returns TOTAL agents
\* and the input count + 1, and every one of these agents was built without a
\* donor and holds an undisposed brain whose weights no other brain carries.
C17_EmptyPoolAdvance ==
  \A n \in 1..Len(inflight) :
    LET r == inflight[n]
    IN r.poolLen = 0 =>
         /\ r.kind # "error"
         /\ Len(r.newAgents) = TOTAL
         /\ r.newGenerationCount = r.count0 + 1
         /\ r.brainToPersist = 0
         /\ \A i \in 1..Len(r.newAgents) :
              /\ r.made[i].donor = 0 /\ r.made[i].mutated = 0
              /\ Releases(r.newAgents[i].brain) = 0
              /\ \A b \in 1..Len(brains.cells) :
                   b # r.newAgents[i].brain => Weight(b) # Weight(r.newAgents[i].brain)

\* C20: an advance whose breeding completed is not turned into the fallback
\* by its save: its continuation is the installation of the bred agents, with
\* the input count + 1, and it is never invoked a second time.
C20_SaveFailureTolerated ==
  /\ \A n \in 1..Len(inflight) :
       inflight[n].bred => inflight[n].kind # "error"
  /\ (Replaced /\ last.call.bred) =>
       /\ agents = last.call.newAgents /\ Len(agents) = TOTAL
       /\ generationCount = last.call.count0 + 1

\* C35: when the continuation of an advance, or its catch block, assigns
\* the live set, every agent of the live set it replaces is in the pool or
\* has a disposed brain.
C35_NoLeakOnReplace ==
  [][last'.op \in {"install", "fallback"} =>
       \A i \in 1..Len(agents) :
         \/ \E j \in 1..Len(savedagents) : savedagents[j].id = agents[i].id
         \/ IsDisposed(brains, agents[i].brain)]_vars

\* C36: changeMap is false when a new live set has been installed, so that
\* the first cycle of a generation forces an advance only for an agent of
\* that generation above maxFitness.
C36_NoStaleThresholdFlag == Replaced => ~changeMap

\* C39: whenever no advance is pending, the generation count in the store,
\* 0 if none was ever written, is the generation count in memory.
C39_StoredCountAgrees ==
  inflight = <<>> =>
    (IF storedGen = -1 THEN 0 ELSE storedGen) = generationCount

\* ------------------------------------------- the succession of generations
\* The sketch with its scheduling, for progress: draw() keeps being called,
\* and the save a pending advance awaits settles, so that its continuation
\* runs.  The breeding itself is left to the specification of the sketch
\* above: an advance is a pending continuation of one of the three kinds,
\* and what it installs is a new live set of TOTAL agents.

LiveInit ==
  /\ agents = [i \in 1..TOTAL |-> Particle(i, i)]
  /\ savedagents = <<>> /\ generationCount = 0
  /\ changeMap = FALSE /\ bestP = 0 /\ currentTrackPresetIndex = 0
  /\ nextAgent = TOTAL + 1 /\ inflight = <<>> /\ cyclesLeft = 0 /\ storedGen = -1
  /\ disposeThrows = FALSE /\ storageFull = FALSE /\ calls = 0
  /\ useAfterRelease = FALSE /\ starved = FALSE
  /\ dropped = [live |-> {}, pool |-> {}]
  /\ brains = [cells |-> <<>>, fresh |-> 1]
  /\ last = NNOp("none", 0)
  /\ probe = NoProbe

\* One cycle of draw() (loadbinary.js 572-640): the control steps, the
\* sweep, and the invocations of callNextGeneration of the forced and the
\* all-dead branch, each of which leaves a continuation pending.
LiveDraw ==
  /\ cyclesLeft = 0 => ~MicroPending
  /\ \E cycles \in (IF cyclesLeft = 0 THEN 1..MaxCycles ELSE {cyclesLeft}) :
     \E stepped \in {[i \in 1..Len(agents) |-> Step(agents[i], inp[i])] :
                       inp \in [1..Len(agents) -> StepInputs]} :
     \E c \in {Swept(stepped)} :
     \E n \in {IF c.forced THEN 2 ELSE IF Len(c.live) = 0 THEN 1 ELSE 0} :
     \E kinds \in [1..n -> {"io", "micro", "error"}] :
       /\ calls + n <= MaxCalls
       /\ agents' = c.live
       /\ savedagents' = c.saved
       /\ changeMap' = (IF c.forced THEN FALSE ELSE c.cm)
       /\ inflight' = inflight \o [i \in 1..n |-> [NoCall EXCEPT !.kind = kinds[i]]]
       /\ calls' = calls + n
       /\ cyclesLeft' = cycles - 1
       /\ last' = NNOp("cycle", n)
  /\ UNCHANGED <<generationCount, bestP, currentTrackPresetIndex, nextAgent,
                 storedGen, disposeThrows, storageFull, useAfterRelease, starved,
                 dropped, brains, probe>>

\* change_obs_no between two frames: one more invocation.
LiveChange ==
  /\ cyclesLeft = 0 /\ ~MicroPending /\ calls < MaxCalls
  /\ \E kind \in {"io", "micro", "error"} :
       inflight' = Append(inflight, [NoCall EXCEPT !.kind = kind])
  /\ calls' = calls + 1
  /\ last' = NNOp("change_obs_no", 1)
  /\ UNCHANGED <<agents, savedagents, changeMap, cyclesLeft,
                 generationCount, bestP, currentTrackPresetIndex, nextAgent,
                 storedGen, disposeThrows, storageFull, useAfterRelease, starved,
                 dropped, brains, probe>>

\* The continuation of a pending callNextGeneration (loadbinary.js 260-272):
\* the result, or the fallback of the catch block, becomes the live set, the
\* pool is emptied and the count grows.
LiveSettle ==
  /\ cyclesLeft = 0
  /\ \E i \in 1..Len(inflight) :
       /\ inflight[i].kind = "io" => ~MicroPending
       /\ inflight' = RemoveAt(inflight, i)
       /\ last' = NNOp(IF inflight[i].kind = "error" THEN "fallback" ELSE "install", 0)
  /\ agents' = [j \in 1..TOTAL |-> Particle(j, j)]
  /\ savedagents' = <<>>
  /\ UNCHANGED <<changeMap, cyclesLeft, calls,
                 generationCount, bestP, currentTrackPresetIndex, nextAgent,
                 storedGen, disposeThrows, storageFull, useAfterRelease, starved,
                 dropped, brains, probe>>

SpecLive ==
  /\ LiveInit /\ [][LiveDraw \/ LiveChange \/ LiveSettle]_vars
  /\ WF_vars(LiveDraw) /\ SF_vars(LiveSettle)

\* C38: from every state with a non-empty live set, a later advance is
\* settled and installs a live set of TOTAL agents - as long as the run has
\* invocations of nextGeneration left to explore.
C38_GenerationEnds ==
  \A k \in 0..MaxCalls :
    (Len(agents) > 0 /\ calls - Len(inflight) = k)
      ~> \/ Replaced /\ calls - Len(inflight) > k /\ Len(agents) = TOTAL
         \/ calls >= MaxCalls - 1

\* C38 witness: the first generation has ended, and the one advance it led
\* to has been settled and has installed TOTAL agents, with invocations left.
C38_Witness ==
  /\ Replaced /\ calls - Len(inflight) = 1 /\ Len(agents) = TOTAL
  /\ calls < MaxCalls - 1

\* ------------------------------------------- the history of the dashboard
\* TrainingDashboard's five history series under updateDashboard, which
\* draw() calls every 30th frame with the generation count of that moment,
\* and resetStats.  The values pushed on the four data series are abstracted
\* to the serial number of the call.  probe holds the series, the number of
\* calls of updateStats and the generations pushed since the latest reset.

\* updateStats(data), dashboard 378-391: a push on each series, then one
\* shift of each when generationHistory is longer than maxHistoryLength.
updateStats(h, data) ==
  LET pushed == [generationHistory |-> Append(h.generationHistory, data.generation),
                 fitnessHistory    |-> Append(h.fitnessHistory, data.sample),
                 lapHistory        |-> Append(h.lapHistory, data.sample),
                 survivalHistory   |-> Append(h.survivalHistory, data.sample),
                 speedHistory      |-> Append(h.speedHistory, data.sample)]
  IN  IF Len(pushed.generationHistory) > maxHistoryLength
      THEN [k \in DOMAIN pushed |-> Tail(pushed[k])]
      ELSE pushed

StatsInit ==
  /\ Parked
  /\ brains = [cells |-> <<>>, fresh |-> 1]
  /\ last = NNOp("none", 0)
  /\ probe = [stage |-> "stats", samples |-> 0, recorded |-> {},
              h |-> [k \in {"generationHistory", "fitnessHistory", "lapHistory",
                            "survivalHistory", "speedHistory"} |-> <<>>]]

\* A generation is installed between two calls: generationCount grows.
StatsGeneration ==
  /\ generationCount < MaxSamples
  /\ generationCount' = generationCount + 1
  /\ last' = NNOp("install", 0)
  /\ UNCHANGED <<agents, savedagents, changeMap, bestP, currentTrackPresetIndex,
                 nextAgent, inflight, cyclesLeft, storedGen, disposeThrows,
                 storageFull, calls, useAfterRelease, starved, dropped, brains, probe>>

\* updateDashboard(), every 30th frame: updateStats({generation:
\* generationCount, ...}).
updateDashboard ==
  /\ probe.samples < MaxSamples
  /\ probe' = [probe EXCEPT
       !.samples = probe.samples + 1,
       !.recorded = probe.recorded \cup {generationCount},
       !.h = updateStats(probe.h, [generation |-> generationCount,
                                   sample |-> probe.samples + 1])]
  /\ last' = NNOp("updateStats", 0)
  /\ UNCHANGED <<sketchVars, brains>>

\* resetStats(), confirmed: five empty series.
resetStats ==
  /\ probe.recorded # {}
  /\ probe' = [probe EXCEPT !.recorded = {},
                            !.h = [k \in DOMAIN probe.h |-> <<>>]]
  /\ last' = NNOp("resetStats", 0)
  /\ UNCHANGED <<sketchVars, brains>>

SpecStats == StatsInit /\ [][StatsGeneration \/ updateDashboard \/ resetStats]_vars

\* C40: the five series have one length, at most maxHistoryLength; they
\* hold the latest pushes in order, the oldest dropped first; and the
\* generations they hold are the most recent maxHistoryLength generations
\* pushed since the latest reset, or all of them if fewer were pushed.
C40_HistoryLastGenerations ==
  probe.stage = "stats" =>
    LET h == probe.h
        n == Len(h.generationHistory)
        gens == {h.generationHistory[i] : i \in 1..n}
    IN  /\ \A k \in DOMAIN h : Len(h[k]) = n
        /\ n <= maxHistoryLength
        /\ \A k \in DOMAIN h \ {"generationHistory"} : \A i \in 1..n :
             h[k][i] = probe.samples - n + i
        /\ Cardinality(gens) = Min(maxHistoryLength, Cardinality(probe.recorded))
        /\ \A g \in probe.recorded \ gens : \A g2 \in gens : g < g2

\* ------------------------------------------ startup (loadbinary.js, setup)
\* A second specification, of loadSimulationState and the rest of setup, over
\* the contents of the persistence store.  probe holds the store and the
\* position of setup; generationCount and currentTrackPresetIndex hold
\* JavaScript numbers, which may be NaN.

\* A JavaScript number: an integer or NaN.
Num(n) == [nan |-> FALSE, n |-> n]
NaN == [nan |-> TRUE, n |-> 0]

\* The characters of a stored string and the value of the decimal digits.
DigitValue == [c \in {"0", "1", "5"} |-> CASE c = "0" -> 0 [] c = "1" -> 1 [] c = "5" -> 5]
IsDigit(c) == c \in DOMAIN DigitValue

\* localStorage.getItem(key): null when the key is absent, else its string.
Item(text) == [present |-> TRUE, text |-> text]
Null == [present |-> FALSE, text |-> <<>>]

\* if (stored): null and the empty string are falsy.
Truthy(item) == item.present /\ Len(item.text) > 0

\* The value of the longest prefix of decimal digits of s from position i on,
\* acc being the value of the digits already read.
RECURSIVE DigitPrefix(_, _, _)
DigitPrefix(s, i, acc) ==
  IF i > Len(s) \/ ~IsDigit(s[i]) THEN acc
  ELSE DigitPrefix(s, i + 1, acc * 10 + DigitValue[s[i]])

\* parseInt(s, 10): an optional sign, then the longest prefix of digits;
\* NaN when there is no digit at that place.
parseInt(s) ==
  LET neg  == Len(s) > 0 /\ s[1] = "-"
      from == IF neg THEN 2 ELSE 1
  IN  IF from > Len(s) \/ ~IsDigit(s[from]) THEN NaN
      ELSE Num((IF neg THEN -1 ELSE 1) * DigitPrefix(s, from, 0))

\* The strings a store can hold under one key, and the stores.
Items ==
  {Null} \cup {Item(t) : t \in UNION {[1..n -> {"-", "0", "1", "5", "x"}] : n \in 0..MaxText}}

\* const stored = localStorage.getItem(key); if (stored) v = parseInt(stored, 10)
Loaded(item, v) == IF Truthy(item) THEN parseInt(item.text) ELSE v

\* TRACK_PRESETS[currentTrackPresetIndex] is undefined outside the list, and
\* buildTrack reads its noiseMax.
PresetDefined(idx) == ~idx.nan /\ idx.n \in 0..(NumPresets - 1)

\* new NeuralNetwork(model, ...): a new instance that takes clones of the
\* weights of the given tf.Sequential, here the heap cell m.
NetworkFromModel(bs, m) ==
  [bs EXCEPT !.cells = Append(bs.cells, Brain(bs.cells[m].w))]

\* new Particle(loadedModel, start): an agent whose brain is a
\* NeuralNetwork built from the raw model.
ParticleFromModel(ctx, m) ==
  [ctx EXCEPT !.bs  = NetworkFromModel(ctx.bs, m),
              !.new = Append(ctx.new, Particle(ctx.na, NextBrain(ctx.bs))),
              !.made = Made(ctx, m),
              !.na  = ctx.na + 1]

\* A population loop that hands the loaded model to every agent.
SetupAgentAllLoaded(ctx, i, m) ==
  IF m # 0 THEN ParticleFromModel(ctx, m) ELSE ParticleRandom(ctx)

\* One iteration of setup's population loop (i counts from 1 here).
SetupAgent(ctx, i, m) ==
  IF i = 1 /\ m # 0 THEN ParticleFromModel(ctx, m) ELSE ParticleRandom(ctx)

RECURSIVE SetupLoop(_, _, _)
SetupLoop(ctx, i, m) ==
  IF i > TOTAL THEN ctx ELSE SetupLoop(SetupAgent(ctx, i, m), i + 1, m)

\* The module's initial values and a store with arbitrary contents.
LoadInit ==
  /\ agents = <<>> /\ savedagents = <<>> /\ generationCount = Num(0)
  /\ changeMap = FALSE /\ bestP = 0 /\ currentTrackPresetIndex = Num(0)
  /\ nextAgent = 1 /\ inflight = <<>> /\ cyclesLeft = 0 /\ storedGen = -1
  /\ disposeThrows = FALSE /\ storageFull = FALSE /\ calls = 0
  /\ useAfterRelease = FALSE /\ starved = FALSE
  /\ dropped = [live |-> {}, pool |-> {}]
  /\ brains = [cells |-> <<>>, fresh |-> 1]
  /\ last = NNOp("none", 0)
  /\ \E g \in Items, t \in Items, l \in {Null, Item(<<"1">>), Item(<<"x">>)},
        k \in {"none", "valid", "unreadable"} :
       probe = [stage |-> "stored", generationCount |-> g,
                currentTrackPresetIndex |-> t, allTimeBestLaps |-> l,
                model |-> k, laps |-> Num(0), loadedModel |-> 0]

\* loadSimulationState(): the three counters, then tf.loadLayersModel, whose
\* failure (no model, unreadable model) is caught and leaves loadedModel null.
loadSimulationState ==
  /\ probe.stage = "stored"
  /\ generationCount' = Loaded(probe.generationCount, generationCount)
  /\ currentTrackPresetIndex' =
       Loaded(probe.currentTrackPresetIndex, currentTrackPresetIndex)
  /\ brains' = IF probe.model = "valid" THEN NewBrain(brains) ELSE brains
  /\ probe' = [probe EXCEPT
       !.stage = "loaded",
       !.laps = Loaded(probe.allTimeBestLaps, probe.laps),
       !.loadedModel = IF probe.model = "valid" THEN NextBrain(brains) ELSE 0]
  /\ last' = NNOp("load", 0)
  /\ UNCHANGED <<savedagents, changeMap, bestP, inflight, cyclesLeft, storedGen,
               disposeThrows, storageFull, calls, useAfterRelease, starved,
               dropped, agents, nextAgent>>

\* setup() after the await: buildTrack() raises a TypeError on an undefined
\* preset, which rejects setup's promise before any agent is created;
\* otherwise the population loop runs and the loaded model is released.
setup ==
  /\ probe.stage = "loaded"
  /\ IF ~PresetDefined(currentTrackPresetIndex)
     THEN /\ probe' = [probe EXCEPT !.stage = "failed"]
          /\ last' = NNOp("setup", 0)
          /\ UNCHANGED <<agents, brains, nextAgent, currentTrackPresetIndex>>
     ELSE \E c \in {SetupLoop(Ctx(brains, nextAgent), 1, probe.loadedModel)} :
          /\ currentTrackPresetIndex' =
               Num((currentTrackPresetIndex.n + 1) % NumPresets)
          /\ agents' = c.new
          /\ nextAgent' = c.na
          /\ brains' = IF probe.loadedModel # 0
                       THEN Dispose(c.bs, probe.loadedModel) ELSE c.bs
          /\ probe' = [probe EXCEPT !.stage = "ready"]
          /\ last' = [NNOp("setup", 0) EXCEPT !.call.made = c.made]
  /\ UNCHANGED <<savedagents, changeMap, bestP, inflight, cyclesLeft, storedGen,
               disposeThrows, storageFull, calls, useAfterRelease, starved,
               dropped, generationCount>>

SpecLoad == LoadInit /\ [][loadSimulationState \/ setup]_vars

\* The store held nothing under any key, and startup has ended: setup
\* returned or its promise was rejected.
StartedEmpty ==
  /\ probe.generationCount = Null /\ probe.currentTrackPresetIndex = Null
  /\ probe.allTimeBestLaps = Null /\ probe.model = "none"
  /\ probe.stage \in {"ready", "failed"}

\* Agent i's brain is a live instance whose weights no other instance has.
RandomBrain(i) ==
  /\ ~IsDisposed(brains, agents[i].brain)
  /\ \A b \in 1..Len(brains.cells) :
       b # agents[i].brain => Weight(b) # Weight(agents[i].brain)

C18_WitnessModel ==
  /\ probe.stage = "ready" /\ probe.model = "valid"
  /\ IsDisposed(brains, probe.loadedModel)

\* C19: after load, the generation count is a natural number, and 0 when the
\* stored count is present but is not the decimal form of a natural number;
\* the track preset index is an index of a preset; and startup does not end
\* in a rejected setup.
C19_CorruptStateIsFreshStart ==
  (probe.stage # "stored") =>
     /\ ~generationCount.nan /\ generationCount.n >= 0
     /\ (/\ probe.generationCount.present
         /\ \/ ~Truthy(probe.generationCount)
            \/ \E i \in 1..Len(probe.generationCount.text) :
                 ~IsDigit(probe.generationCount.text[i]))
          => generationCount = Num(0)
     /\ PresetDefined(currentTrackPresetIndex)
     /\ probe.stage # "failed"

====
